---------------------------- MODULE Spec2Model ----------------------------
(***************************************************************************)
(* Model of class History of the vector network analysis dialog           *)
(* (grass7/gui/wxpython/wx.vnet/vnet/dialogs.py): the undo/redo log that   *)
(* keeps the committed steps in a line-oriented temporary file.            *)
(*                                                                         *)
(* Representation.                                                         *)
(*   text    a Python string is the sequence of its characters, each a     *)
(*           one-character TLA+ string: "a;1" is <<"a", ";", "1">>.        *)
(*   value   a Python object is a record [t |-> type tag, v |-> payload]:  *)
(*             "int"   v is the integer                                    *)
(*             "bool"  v is TRUE or FALSE                                  *)
(*             "none"  v is <<>>                                           *)
(*             "str"   v is the text                                       *)
(*             "float" v is [k |-> "fin"|"inf"|"nan", m |-> mantissa,      *)
(*                           e |-> decimal exponent]  (m * 10^e)           *)
(*             "tuple" v is the sequence of its items (integers)           *)
(*             "list"  v is the sequence of its items (values)             *)
(*             "dict"  v is the function from its keys (texts) to values   *)
(*   dict    the dictionaries the class itself holds (newHistStepData,     *)
(*           the step data it returns) are functions from texts.           *)
(*   file    a file is the sequence of its lines as readlines() returns    *)
(*           them (terminator included).  Each line is a record            *)
(*           [c |-> n, s |-> text]; s is the line, c is a ghost stamp: the *)
(*           number of the commit that produced the line.  The code never  *)
(*           reads c.                                                      *)
(***************************************************************************)
EXTENDS Integers, Sequences, FiniteSets, TLC

(***************************************************************************)
(* Bounds of the model.                                                    *)
(***************************************************************************)
\* SaveHistStep is called at most MaxCommits times in a behaviour
MaxCommits == 3
\* the values of the max_hist_steps setting are MinHistSteps..MaxSetting
MaxSetting == 2
\* GetPrev / GetNext keep the navigation offset within -MaxNav..MaxNav
MaxNav == 2

(***************************************************************************)
(* Program constants.                                                      *)
(***************************************************************************)
\* History.__init__: self.maxHistSteps = 3
InitMaxHistSteps == 3
\* SettingsDialog: wx.SpinCtrl(min = 1, max = 50) edits max_hist_steps
MinHistSteps == 1
\* History.__init__: self.sep = ';'
sep == <<";">>
\* os.linesep
linesep == <<"\n">>

(***************************************************************************)
(* Python string primitives.                                               *)
(***************************************************************************)
Digits == <<"0", "1", "2", "3", "4", "5", "6", "7", "8", "9">>

IsDigit(c) == \E d \in 1..10 : Digits[d] = c

DigitVal(c) == (CHOOSE d \in 1..10 : Digits[d] = c) - 1

\* the characters str.strip() removes
Whitespace == {" ", "\t", "\n", "\r", "\f"}

Contains(t, c) == \E k \in 1..Len(t) : t[k] = c

FirstIdx(t, c) == CHOOSE k \in 1..Len(t) : t[k] = c /\ \A j \in 1..(k-1) : t[j] # c

\* t.split(c) for a one-character separator c
RECURSIVE Split(_, _)
Split(t, c) ==
    IF ~Contains(t, c) THEN <<t>>
    ELSE LET k == FirstIdx(t, c)
         IN  <<SubSeq(t, 1, k-1)>> \o Split(SubSeq(t, k+1, Len(t)), c)

\* d.join(parts)
RECURSIVE Join(_, _)
Join(parts, d) ==
    IF Len(parts) = 0 THEN <<>>
    ELSE IF Len(parts) = 1 THEN parts[1]
    ELSE parts[1] \o d \o Join(Tail(parts), d)

\* t.lstrip(chars), t.rstrip(chars), t.strip()
RECURSIVE LStrip(_, _)
LStrip(t, chars) ==
    IF Len(t) > 0 /\ t[1] \in chars THEN LStrip(Tail(t), chars) ELSE t

RECURSIVE RStrip(_, _)
RStrip(t, chars) ==
    IF Len(t) > 0 /\ t[Len(t)] \in chars
    THEN RStrip(SubSeq(t, 1, Len(t)-1), chars) ELSE t

Strip(t) == LStrip(RStrip(t, Whitespace), Whitespace)

\* t[1:-1]
Slice1m1(t) == SubSeq(t, 2, Len(t)-1)

\* file.readlines() of a character stream: cut after every "\n"
RECURSIVE ReadLines(_)
ReadLines(stream) ==
    IF Len(stream) = 0 THEN <<>>
    ELSE IF ~Contains(stream, "\n") THEN <<stream>>
    ELSE LET k == FirstIdx(stream, "\n")
         IN  <<SubSeq(stream, 1, k)>> \o ReadLines(SubSeq(stream, k+1, Len(stream)))

\* str(n) for an integer n
RECURSIVE StrNat(_)
StrNat(n) ==
    IF n < 10 THEN <<Digits[n+1]>> ELSE StrNat(n \div 10) \o <<Digits[(n % 10) + 1]>>

StrInt(n) == IF n < 0 THEN <<"-">> \o StrNat(-n) ELSE StrNat(n)

\* the digits of t read as a decimal number
RECURSIVE NatOf(_)
NatOf(t) ==
    IF Len(t) = 0 THEN 0
    ELSE 10 * NatOf(SubSeq(t, 1, Len(t)-1)) + DigitVal(t[Len(t)])

AllDigits(t) == Len(t) > 0 /\ \A k \in 1..Len(t) : IsDigit(t[k])

Unsigned(t) == IF Len(t) > 0 /\ t[1] \in {"+", "-"} THEN Tail(t) ELSE t

\* int(t) succeeds: optional surrounding whitespace, optional sign, digits
IsInt(t) == AllDigits(Unsigned(Strip(t)))

\* int(t) where IsInt(t)
IntOf(t) ==
    LET u == Strip(t)
    IN  IF Len(u) > 0 /\ u[1] = "-" THEN 0 - NatOf(Tail(u)) ELSE NatOf(Unsigned(u))


(***************************************************************************)
(* float(t), str(x) and repr(x).                                           *)
(* Floats are exact decimals here; the 53-bit rounding of the machine      *)
(* float and the exponent notation str() chooses for very large or very    *)
(* small magnitudes are outside the model.                                 *)
(***************************************************************************)
LowerC(c) ==
    CASE c = "I" -> "i" [] c = "N" -> "n" [] c = "F" -> "f" [] c = "A" -> "a"
      [] c = "T" -> "t" [] c = "Y" -> "y" [] c = "E" -> "e" [] OTHER -> c

Lower(t) == [k \in 1..Len(t) |-> LowerC(t[k])]

Pow10(n) == IF n <= 0 THEN 1 ELSE
    LET RECURSIVE P(_)
        P(k) == IF k = 0 THEN 1 ELSE 10 * P(k-1)
    IN  P(n)

\* the mantissa part of a decimal literal: digits [. digits], at least one digit
IsMantissa(t) ==
    LET parts == Split(t, ".")
    IN  /\ Len(parts) <= 2
        /\ \A i \in 1..Len(parts) : \A k \in 1..Len(parts[i]) : IsDigit(parts[i][k])
        /\ \E i \in 1..Len(parts) : Len(parts[i]) > 0

IsDecimal(body) ==
    IF Contains(body, "e")
    THEN LET k == FirstIdx(body, "e")
         IN  /\ IsMantissa(SubSeq(body, 1, k-1))
             /\ AllDigits(Unsigned(SubSeq(body, k+1, Len(body))))
    ELSE IsMantissa(body)

SpecialFloats == { <<"i","n","f">>, <<"i","n","f","i","n","i","t","y">>, <<"n","a","n">> }

\* float(t) succeeds
IsFloat(t) ==
    LET body == Lower(Unsigned(Strip(t)))
    IN  body \in SpecialFloats \/ IsDecimal(body)

RECURSIVE NormFloat(_, _)
NormFloat(m, e) ==
    IF m = 0 THEN [k |-> "fin", m |-> 0, e |-> 0]
    ELSE IF m % 10 = 0 THEN NormFloat(m \div 10, e + 1)
    ELSE [k |-> "fin", m |-> m, e |-> e]

\* float(t) where IsFloat(t)
FloatOf(t) ==
    LET u    == Lower(Strip(t))
        neg  == Len(u) > 0 /\ u[1] = "-"
        body == Unsigned(u)
        k    == IF Contains(body, "e") THEN FirstIdx(body, "e") ELSE Len(body) + 1
        mant == Split(SubSeq(body, 1, k-1), ".")
        frac == IF Len(mant) = 2 THEN mant[2] ELSE <<>>
        ex   == IF k <= Len(body) THEN IntOf(SubSeq(body, k+1, Len(body))) ELSE 0
        mag  == NatOf(mant[1] \o frac)
    IN  IF body = <<"n","a","n">> THEN [k |-> "nan", m |-> 0, e |-> 0]
        ELSE IF body \in SpecialFloats THEN [k |-> "inf", m |-> IF neg THEN -1 ELSE 1, e |-> 0]
        ELSE NormFloat(IF neg THEN 0 - mag ELSE mag, ex - Len(frac))

RECURSIVE Zeros(_)
Zeros(n) == IF n <= 0 THEN <<>> ELSE <<"0">> \o Zeros(n-1)

\* str(x) and repr(x) of a float x
FloatStr(x) ==
    IF x.k = "nan" THEN <<"n","a","n">>
    ELSE IF x.k = "inf" THEN (IF x.m < 0 THEN <<"-">> ELSE <<>>) \o <<"i","n","f">>
    ELSE LET sign == IF x.m < 0 THEN <<"-">> ELSE <<>>
             mag  == IF x.m < 0 THEN 0 - x.m ELSE x.m
         IN  IF x.e >= 0 THEN sign \o StrNat(mag * Pow10(x.e)) \o <<".", "0">>
             ELSE LET ds  == StrNat(mag)
                      pad == Zeros((1 - x.e) - Len(ds)) \o ds
                      n   == Len(pad)
                  IN  sign \o SubSeq(pad, 1, n + x.e) \o <<".">> \o SubSeq(pad, n + x.e + 1, n)

\* repr(s) of a string without backslashes or unprintable characters
StrRepr(s) ==
    IF Contains(s, "'") /\ ~Contains(s, "\"")
    THEN <<"\"">> \o s \o <<"\"">>
    ELSE <<"'">> \o s \o <<"'">>

\* repr(x) of a scalar x
ScalarRepr(x) ==
    CASE x.t = "int"   -> StrInt(x.v)
      [] x.t = "bool"  -> IF x.v THEN <<"T","r","u","e">> ELSE <<"F","a","l","s","e">>
      [] x.t = "none"  -> <<"N","o","n","e">>
      [] x.t = "float" -> FloatStr(x.v)
      [] x.t = "str"   -> StrRepr(x.v)
      [] x.t = "tuple" ->
           <<"(">> \o Join([k \in 1..Len(x.v) |-> StrInt(x.v[k])], <<",", " ">>)
                   \o (IF Len(x.v) = 1 THEN <<",">> ELSE <<>>) \o <<")">>

\* '%s' % x : str(x); the items of a list are shown by repr
PyStr(x) ==
    CASE x.t = "str"  -> x.v
      [] x.t = "list" ->
           <<"[">> \o Join([k \in 1..Len(x.v) |-> ScalarRepr(x.v[k])], <<",", " ">>) \o <<"]">>
      [] OTHER -> ScalarRepr(x)


(***************************************************************************)
(* Text constants of the file format and of the callers' keys.             *)
(***************************************************************************)
True_  == <<"T", "r", "u", "e">>
False_ == <<"F", "a", "l", "s", "e">>
None_  == <<"N", "o", "n", "e">>

\* "history step=0" without the index: _saveNewHistStep writes it
HistoryStep == <<"h","i","s","t","o","r","y"," ","s","t","e","p">>

\* keys and subkeys VNETDialog passes to History.Add
points   == <<"p","o","i","n","t","s">>
tmp_data == <<"t","m","p","_","d","a","t","a">>
pt0      == <<"p","t","0">>
cat      == <<"c","a","t">>
topology == <<"t","o","p","o","l","o","g","y">>
checked  == <<"c","h","e","c","k","e","d">>
maps     == <<"m","a","p","s">>
vnet_modules == <<"v","n","e","t","_","m","o","d","u","l","e","s">>
curr_module  == <<"c","u","r","r","_","m","o","d","u","l","e">>

StrV(s)  == [t |-> "str", v |-> s]
IntV(n)  == [t |-> "int", v |-> n]
ListV(l) == [t |-> "list", v |-> l]
DictV(d) == [t |-> "dict", v |-> d]

(***************************************************************************)
(* History._castValue and History._parseValue                              *)
(***************************************************************************)
\* mutant of CastValue: every item is taken for a quoted string
CastValueQuoted(value) == StrV(Slice1m1(value))

\* _castValue(value): an item of a stored list
CastValue(value) ==
    IF IsInt(value) THEN IntV(IntOf(value))
    ELSE IF IsFloat(value) THEN [t |-> "float", v |-> FloatOf(value)]
    ELSE StrV(Slice1m1(value))

\* _parseValue(value, read = True): a stored field
ParseValueRead(value) ==
    IF Len(value) > 0 /\ value[1] = "[" /\ value[Len(value)] = "]"
    THEN LET items == Split(Slice1m1(value), ",")
         IN  ListV([k \in 1..Len(items) |-> CastValue(items[k])])
    ELSE IF value = True_ THEN [t |-> "bool", v |-> TRUE]
    ELSE IF value = False_ THEN [t |-> "bool", v |-> FALSE]
    ELSE IF value = None_ THEN [t |-> "none", v |-> <<>>]
    ELSE IF Contains(value, ":")
    THEN LET items == Split(value, ":")
         IN  IF \A k \in 1..Len(items) : IsInt(items[k])
             THEN [t |-> "tuple", v |-> [k \in 1..Len(items) |-> IntOf(items[k])]]
             ELSE StrV(value)
    ELSE IF IsInt(value) THEN IntV(IntOf(value))
    ELSE IF IsFloat(value) THEN [t |-> "float", v |-> FloatOf(value)]
    ELSE StrV(value)

\* mutant of ParseValueWrite: a tuple is written as str() shows it
ParseValueWriteAsIs(value) == value

\* _parseValue(value): the object to write; a tuple becomes "R:G:B"
ParseValueWrite(value) ==
    IF value.t = "tuple"
    THEN StrV(StrInt(value.v[1]) \o <<":">> \o StrInt(value.v[2]) \o <<":">> \o StrInt(value.v[3]))
    ELSE value

(***************************************************************************)
(* Python dictionaries.                                                    *)
(***************************************************************************)
EmptyDict == <<>>

DictSet(d, k, x) == [n \in (DOMAIN d) \cup {k} |-> IF n = k THEN x ELSE d[n]]

\* The order in which keys() lists the names the callers use.  A Python 2
\* dictionary lists its keys in the order of their hashes, which is fixed
\* for a given set of names.
HashOrder == <<tmp_data, points, maps, pt0, cat, topology, checked,
               vnet_modules, curr_module>>

\* d.keys()
KeysOf(d) ==
    LET In(n) == n \in DOMAIN d
    IN  SelectSeq(HashOrder, In)

RECURSIVE Concat(_)
Concat(texts) == IF Len(texts) = 0 THEN <<>> ELSE texts[1] \o Concat(Tail(texts))

(***************************************************************************)
(* History.Add                                                             *)
(* subkey is StrV(name) or ListV(<<group, leaf>>).  The result is the new    *)
(* newHistStepData and whether the call raised (TypeError: the group of a  *)
(* two-element subkey names a slot that holds a plain value).              *)
(***************************************************************************)
\* mutant of AddTo: the buffer is rebuilt from the added slot alone
AddToFresh(data, key, subkey, value) ==
    [err |-> FALSE,
     d |-> IF subkey.t = "list"
           THEN (key :> (subkey.v[1] :> DictV(subkey.v[2] :> value)))
           ELSE (key :> (subkey.v :> value))]

AddTo(data, key, subkey, value) ==
    LET d1 == IF key \notin DOMAIN data THEN DictSet(data, key, EmptyDict) ELSE data
    IN  IF subkey.t = "list"
        THEN LET g  == subkey.v[1]
                 d2 == IF g \notin DOMAIN d1[key]
                       THEN DictSet(d1, key, DictSet(d1[key], g, DictV(EmptyDict)))
                       ELSE d1
             IN  IF d2[key][g].t # "dict"
                 THEN [err |-> TRUE, d |-> d2]
                 ELSE [err |-> FALSE,
                       d |-> DictSet(d2, key,
                                DictSet(d2[key], g, DictV(DictSet(d2[key][g].v, subkey.v[2], value))))]
        ELSE [err |-> FALSE, d |-> DictSet(d1, key, DictSet(d1[key], subkey.v, value))]


(***************************************************************************)
(* History._saveNewHistStep                                                *)
(***************************************************************************)
\* what the loop over the leaves of one group writes (lines 2253-2259)
GroupText(group) ==
    LET kvalues == KeysOf(group)
    IN  Join([sidx \in 1..Len(kvalues) |->
                 kvalues[sidx] \o sep \o PyStr(ParseValueWrite(group[kvalues[sidx]]))],
             sep)

\* mutant of SubkeyText: a flat pair that follows a group stays on the
\* group's line (the test of lines 2261-2263 is missing)
SubkeyTextNoBreak(key, entries, subkeys, idx) ==
    LET value == entries[subkeys[idx]]
    IN  IF value.t = "dict"
        THEN (IF idx > 1 THEN linesep \o key \o sep ELSE <<>>)
             \o subkeys[idx] \o sep \o GroupText(value.v)
        ELSE (IF idx > 1 /\ entries[subkeys[idx-1]].t = "dict" THEN sep ELSE <<>>)
             \o subkeys[idx] \o sep \o PyStr(ParseValueWrite(value))
             \o (IF idx < Len(subkeys) /\ entries[subkeys[idx+1]].t # "dict"
                 THEN sep ELSE <<>>)

\* what the loop body writes for subkeys[idx] of key (lines 2248-2268)
SubkeyText(key, entries, subkeys, idx) ==
    LET value == entries[subkeys[idx]]
    IN  IF value.t = "dict"
        THEN (IF idx > 1 THEN linesep \o key \o sep ELSE <<>>)
             \o subkeys[idx] \o sep \o GroupText(value.v)
        ELSE (IF idx > 1 /\ entries[subkeys[idx-1]].t = "dict"
              THEN linesep \o key \o sep ELSE <<>>)
             \o subkeys[idx] \o sep \o PyStr(ParseValueWrite(value))
             \o (IF idx < Len(subkeys) /\ entries[subkeys[idx+1]].t # "dict"
                 THEN sep ELSE <<>>)

\* what the loop body writes for one top-level key (lines 2245-2269)
KeyText(key, entries) ==
    LET subkeys == KeysOf(entries)
    IN  key \o sep
        \o Concat([idx \in 1..Len(subkeys) |-> SubkeyText(key, entries, subkeys, idx)])
        \o linesep

\* the characters _saveNewHistStep writes for the pending buffer data
NewHistStepText(data) ==
    LET keys == KeysOf(data)
    IN  linesep \o HistoryStep \o <<"=", "0">> \o linesep
        \o Concat([k \in 1..Len(keys) |-> KeyText(keys[k], data[keys[k]])])

\* mutant of SaveNewHistStep: the key lines of the new step are not written
SaveNewHistStepHeaderOnly(data, c) ==
    << [c |-> c, s |-> linesep], [c |-> c, s |-> HistoryStep \o <<"=", "0">> \o linesep] >>

\* the lines of the new file after _saveNewHistStep, stamped with commit c
SaveNewHistStep(data, c) ==
    LET ls == ReadLines(NewHistStepText(data))
    IN  [k \in 1..Len(ls) |-> [c |-> c, s |-> ls[k]]]

(***************************************************************************)
(* History._parseLine                                                      *)
(* The result is the updated histStepData and whether the call raised      *)
(* (TypeError: a group line names a slot that holds a plain value).        *)
(***************************************************************************)
\* lines 2364-2372: the store into histStepData, written like History.Add
PutParsed(histStepData, key, subkey, value) ==
    LET d1 == IF key \notin DOMAIN histStepData
              THEN DictSet(histStepData, key, EmptyDict) ELSE histStepData
    IN  IF subkey.t = "list"
        THEN LET g  == subkey.v[1]
                 d2 == IF g \notin DOMAIN d1[key]
                       THEN DictSet(d1, key, DictSet(d1[key], g, DictV(EmptyDict)))
                       ELSE d1
             IN  IF d2[key][g].t # "dict"
                 THEN [err |-> TRUE, d |-> d2]
                 ELSE [err |-> FALSE,
                       d |-> DictSet(d2, key,
                                DictSet(d2[key], g, DictV(DictSet(d2[key][g].v, subkey.v[2], value))))]
        ELSE [err |-> FALSE, d |-> DictSet(d1, key, DictSet(d1[key], subkey.v, value))]

\* the while loop over the subkey/value pairs kv[idx], kv[idx+1] (0-based idx)
RECURSIVE ParsePairs(_, _, _, _, _)
ParsePairs(key, subkeyMaster, kv, idx, histStepData) ==
    IF ~(idx < Len(kv)) THEN [err |-> FALSE, d |-> histStepData]
    ELSE LET subkey == IF subkeyMaster # <<>>
                       THEN ListV(<<subkeyMaster, kv[idx+1]>>)
                       ELSE StrV(kv[idx+1])
             value  == ParseValueRead(kv[idx+2])
             r      == PutParsed(histStepData, key, subkey, value)
         IN  IF r.err THEN r
             ELSE ParsePairs(key, subkeyMaster, kv, idx + 2, r.d)

\* mutant of ParseLine: the empty fields of the line are skipped
ParseLineSkippingEmpty(line, histStepData) ==
    LET NonEmpty(f) == f # <<>>
        fields == SelectSeq(Split(RStrip(line, {"\n"}), ";"), NonEmpty)
        key    == fields[1]
        kv0    == Tail(fields)
        odd    == Len(kv0) % 2 # 0
        subkeyMaster == IF odd THEN kv0[1] ELSE <<>>
        kv     == IF odd THEN Tail(kv0) ELSE kv0
    IN  ParsePairs(key, subkeyMaster, kv, 0, histStepData)

ParseLine(line, histStepData) ==
    LET fields == Split(RStrip(line, {"\n"}), ";")
        key    == fields[1]
        kv0    == Tail(fields)
        odd    == Len(kv0) % 2 # 0
        \* None and '' are both false in "if subkeyMaster:"
        subkeyMaster == IF odd THEN kv0[1] ELSE <<>>
        kv     == IF odd THEN Tail(kv0) ELSE kv0
    IN  ParsePairs(key, subkeyMaster, kv, 0, histStepData)

(***************************************************************************)
(* History._savePreviousHist                                               *)
(* st is the loop state: the locals newHistStep, newHistStepsNum,          *)
(* removedHistData and removedHistStep (the key of the dictionary it       *)
(* refers to, <<>> while unbound), self.histStepsNum, the lines written to *)
(* newHist so far, and whether an exception ended the loop.  src is the    *)
(* ghost set of stamps of the lines that went into each removed step.      *)
(***************************************************************************)
\* mutants of Exceeds: the comparison off by one, and turned around
ExceedsOffByOne(newHistStepsNum, max) == newHistStepsNum > max

ExceedsNewest(newHistStepsNum, max) == newHistStepsNum < max

\* lines 2227 and 2234: the step with this new index is dropped
Exceeds(newHistStepsNum, max) == newHistStepsNum >= max

RECURSIVE SavePrevLoop(_, _, _, _)
SavePrevLoop(lines, i, max, st) ==
    IF i > Len(lines) \/ st.err THEN st
    ELSE
    LET line == lines[i]
    IN  IF Strip(line.s) = <<>>
        THEN SavePrevLoop(lines, i+1, max,
                 [st EXCEPT !.newHistStep = TRUE, !.newHistStepsNum = @ + 1])
        ELSE IF st.newHistStep
        THEN LET parts == Split(line.s, "=")
             IN  IF Len(parts) < 2 THEN [st EXCEPT !.err = TRUE]
                 ELSE
                 LET hdr == Join([parts EXCEPT ![2] = StrInt(st.newHistStepsNum)], <<"=">>)
                 IN  IF Exceeds(st.newHistStepsNum, max)
                     THEN SavePrevLoop(lines, i+1, max,
                              [st EXCEPT !.newHistStep = FALSE,
                                         !.removedHistData = DictSet(@, hdr, EmptyDict),
                                         !.src = DictSet(@, hdr, {line.c}),
                                         !.removedHistStep = hdr])
                     ELSE SavePrevLoop(lines, i+1, max,
                              [st EXCEPT !.newHistStep = FALSE,
                                         !.out = @ \o << [c |-> line.c, s |-> linesep],
                                                         [c |-> line.c, s |-> hdr \o linesep] >>,
                                         !.histStepsNum = st.newHistStepsNum])
        ELSE IF Exceeds(st.newHistStepsNum, max)
        THEN IF st.removedHistStep = <<>> THEN [st EXCEPT !.err = TRUE]
             ELSE LET r == ParseLine(line.s, st.removedHistData[st.removedHistStep])
                  IN  SavePrevLoop(lines, i+1, max,
                          [st EXCEPT !.err = r.err,
                                     !.removedHistData = DictSet(@, st.removedHistStep, r.d),
                                     !.src = DictSet(@, st.removedHistStep,
                                                     @[st.removedHistStep] \cup {line.c})])
        ELSE SavePrevLoop(lines, i+1, max, [st EXCEPT !.out = @ \o <<line>>])

\* mutant of SavePreviousHist: the evicted steps are dropped without being
\* put into removedHistData
SavePreviousHistUnreported(newHist, oldHist, max, stepsNum) ==
    [SavePrevLoop(oldHist, 1, max,
        [newHistStep |-> FALSE, newHistStepsNum |-> stepsNum,
         removedHistData |-> EmptyDict, removedHistStep |-> <<>>,
         histStepsNum |-> stepsNum, out |-> newHist, err |-> FALSE, src |-> EmptyDict])
     EXCEPT !.removedHistData = EmptyDict, !.src = EmptyDict]

\* mutant of SavePreviousHist: histStepsNum counts the steps of the new file
SavePreviousHistCounting(newHist, oldHist, max, stepsNum) ==
    [SavePrevLoop(oldHist, 1, max,
        [newHistStep |-> FALSE, newHistStepsNum |-> stepsNum,
         removedHistData |-> EmptyDict, removedHistStep |-> <<>>,
         histStepsNum |-> stepsNum, out |-> newHist, err |-> FALSE, src |-> EmptyDict])
     EXCEPT !.histStepsNum = @ + 1]

\* mutant of SavePreviousHist: of the old steps only the blank lines and the
\* headers are copied, their key lines are lost
SavePreviousHistHeadersOnly(newHist, oldHist, max, stepsNum) ==
    LET IsNoKeyLine(l) == ~Contains(l.s, ";")
    IN  SavePrevLoop(SelectSeq(oldHist, IsNoKeyLine), 1, max,
            [newHistStep |-> FALSE, newHistStepsNum |-> stepsNum,
             removedHistData |-> EmptyDict, removedHistStep |-> <<>>,
             histStepsNum |-> stepsNum, out |-> newHist, err |-> FALSE, src |-> EmptyDict])

\* mutant of SavePreviousHist: the count of line 2212 starts one too low, so
\* that the old steps keep the indices they had
SavePreviousHistNotAged(newHist, oldHist, max, stepsNum) ==
    SavePrevLoop(oldHist, 1, max,
        [newHistStep |-> FALSE, newHistStepsNum |-> stepsNum - 1,
         removedHistData |-> EmptyDict, removedHistStep |-> <<>>,
         histStepsNum |-> stepsNum, out |-> newHist, err |-> FALSE, src |-> EmptyDict])

\* _savePreviousHist(newHist, oldHist): newHist holds the lines written so far
SavePreviousHist(newHist, oldHist, max, stepsNum) ==
    SavePrevLoop(oldHist, 1, max,
        [newHistStep |-> FALSE, newHistStepsNum |-> stepsNum,
         removedHistData |-> EmptyDict, removedHistStep |-> <<>>,
         histStepsNum |-> stepsNum, out |-> newHist, err |-> FALSE, src |-> EmptyDict])

(***************************************************************************)
(* History._getHistStepData                                                *)
(***************************************************************************)
RECURSIVE GetLoop(_, _, _, _)
GetLoop(lines, i, histStep, st) ==
    IF i > Len(lines) \/ st.err THEN st
    ELSE
    LET line  == lines[i]
        blank == Strip(line.s) = <<>>
    IN  IF blank /\ st.isSearchedHistStep THEN st
        ELSE IF blank
        THEN GetLoop(lines, i+1, histStep, [st EXCEPT !.newHistStep = TRUE])
        ELSE
        LET r  == IF st.isSearchedHistStep THEN ParseLine(line.s, st.d)
                  ELSE [err |-> FALSE, d |-> st.d]
            s1 == [st EXCEPT !.d = r.d, !.err = r.err,
                             !.src = IF st.isSearchedHistStep THEN @ \cup {line.c} ELSE @]
        IN  IF r.err THEN s1
            ELSE IF st.newHistStep
            THEN LET parts == Split(line.s, "=")
                 IN  IF Len(parts) < 2 \/ ~IsInt(parts[2]) THEN [s1 EXCEPT !.err = TRUE]
                     ELSE GetLoop(lines, i+1, histStep,
                              [s1 EXCEPT !.newHistStep = FALSE,
                                         !.isSearchedHistStep =
                                             (@ \/ IntOf(parts[2]) = histStep),
                                         !.src = IF IntOf(parts[2]) = histStep
                                                 THEN @ \cup {line.c} ELSE @])
            ELSE GetLoop(lines, i+1, histStep, s1)

\* mutant of GetHistStepData: an offset outside the file is brought back to
\* the nearest step
GetHistStepDataClamped(lines, histStep) ==
    GetLoop(lines, 1,
        IF histStep < 0 THEN 0
        ELSE IF histStep >= Cardinality({ k \in 1..Len(lines) : Strip(lines[k].s) = <<>> })
             THEN Cardinality({ k \in 1..Len(lines) : Strip(lines[k].s) = <<>> }) - 1
             ELSE histStep,
        [newHistStep |-> FALSE, isSearchedHistStep |-> FALSE,
         d |-> EmptyDict, err |-> FALSE, src |-> {}])

\* mutant of GetHistStepData: the step next to the requested one is loaded
GetHistStepDataOffByOne(lines, histStep) ==
    GetLoop(lines, 1, histStep + 1,
        [newHistStep |-> FALSE, isSearchedHistStep |-> FALSE,
         d |-> EmptyDict, err |-> FALSE, src |-> {}])

\* _getHistStepData(histStep) on the lines of self.histFile
GetHistStepData(lines, histStep) ==
    GetLoop(lines, 1, histStep,
        [newHistStep |-> FALSE, isSearchedHistStep |-> FALSE,
         d |-> EmptyDict, err |-> FALSE, src |-> {}])


(***************************************************************************)
(* The state.                                                              *)
(***************************************************************************)
VARIABLES
    maxHistSteps,      \* self.maxHistSteps
    currHistStep,      \* self.currHistStep: the navigation offset
    histStepsNum,      \* self.histStepsNum
    currHistStepData,  \* self.currHistStepData
    newHistStepData,   \* self.newHistStepData: the pending buffer
    histFile,          \* self.histFile: the path of the backing file
    fs,                \* the temporary files that exist: path -> lines
    setting,           \* UserSettings vnet/other/max_hist_steps
    lastOp,            \* the operation of History that returned last
    args,              \* the arguments it was called with
    ret,               \* what it returned
    raised,            \* whether it raised an exception
    retSrc,            \* ghost: the stamps of the lines ret was read from
    prevHistStep,      \* ghost: currHistStep before the last operation
    added,             \* ghost: the slots Added since the last commit
    nCommits,          \* ghost: the number of SaveHistStep calls so far
    committed,         \* ghost: stamp -> the pending buffer committed as that
                       \*        step, for the steps the backing file holds
    tmpMaps,           \* VnetTmpVectMaps.tmpMaps: the registered temporary maps
    tmpVectMapsToHist, \* VNETDialog.tmpVectMapsToHist
    histTmpVectMapNum, \* VNETDialog.histTmpVectMapNum
    onDone             \* the callback of the analysis that is running

vars == <<maxHistSteps, currHistStep, histStepsNum, currHistStepData,
          newHistStepData, histFile, fs, setting, lastOp, args, ret, raised,
          retSrc, prevHistStep, added, nCommits, committed,
          tmpMaps, tmpVectMapsToHist, histTmpVectMapNum, onDone>>

\* the state of the dialog that owns the History
dialog == <<tmpMaps, tmpVectMapsToHist, histTmpVectMapNum, onDone>>

\* what Add, and a call that raised, return
NoneV == [t |-> "none", v |-> <<>>]

(***************************************************************************)
(* The callers' inputs.                                                    *)
(***************************************************************************)
\* the calls of Add between commits: a (group, leaf) path with an integer
\* and a flat subkey with a list of two map names
\* (VNETDialog.NewTmpVectMapToHist stores such lists)
AddInputs ==
    { [key |-> points,   subkey |-> ListV(<<pt0, cat>>), value |-> IntV(7)],
      [key |-> tmp_data, subkey |-> StrV(maps),
       value |-> ListV(<<StrV(<<"a">>), StrV(<<"b">>)>>)] }

\* more calls of Add: two leaves of one group and a flat subkey of another
\* key, each with two values so that one replaces the other
AddInputsRich ==
    { [key |-> a[1], subkey |-> a[2], value |-> v] :
        a \in { <<points, ListV(<<pt0, cat>>)>>,
                <<points, ListV(<<pt0, topology>>)>>,
                <<tmp_data, StrV(maps)>> },
        v \in { IntV(7), StrV(<<"x">>) } }

\* the values the settings dialog can store: its SpinCtrl has min = 1
SettingValues == MinHistSteps..MaxSetting

\* grass.tempfile(): the path of a new, empty temporary file
NewTempFile == 1 + CHOOSE p \in DOMAIN fs : \A q \in DOMAIN fs : q <= p

\* the slot a call of Add names: <<key, subkey>> or <<key, group, leaf>>
SlotOf(key, subkey) == IF subkey.t = "list" THEN <<key>> \o subkey.v ELSE <<key, subkey.v>>

(***************************************************************************)
(* Init: the state after History.__init__ (lines 2133-2145).               *)
(***************************************************************************)
Init ==
    /\ maxHistSteps = InitMaxHistSteps
    /\ currHistStep = 0
    /\ histStepsNum = 0
    /\ currHistStepData = EmptyDict
    /\ newHistStepData = EmptyDict
    /\ histFile = 1
    /\ fs = (1 :> <<>>)
    /\ setting \in SettingValues
    /\ lastOp = "init"
    /\ args = <<>>
    /\ ret = NoneV
    /\ raised = FALSE
    /\ retSrc = {}
    /\ prevHistStep = 0
    /\ added = {}
    /\ nCommits = 0
    /\ committed = EmptyDict
    /\ tmpMaps = <<>>
    /\ tmpVectMapsToHist = <<>>
    /\ histTmpVectMapNum = 0
    /\ onDone = "none"

(***************************************************************************)
(* The operations.                                                         *)
(***************************************************************************)
\* SettingsDialog.UpdateSettings stores a new max_hist_steps; it calls no
\* operation of History, so the record of the last call stays
UpdateSettings(m) ==
    /\ m # setting
    /\ setting' = m
    /\ UNCHANGED <<dialog, maxHistSteps, currHistStep, histStepsNum, currHistStepData,
                   newHistStepData, histFile, fs, lastOp, args, ret, raised,
                   retSrc, prevHistStep, added, nCommits, committed>>

\* History.Add(key, subkey, value)
Add(key, subkey, value) ==
    \E r \in {AddTo(newHistStepData, key, subkey, value)} :
        /\ newHistStepData' = r.d
        /\ lastOp' = "Add"
        /\ args' = [key |-> key, subkey |-> subkey, value |-> value]
        /\ ret' = NoneV
        /\ raised' = r.err
        /\ retSrc' = {}
        /\ prevHistStep' = currHistStep
        /\ added' = IF r.err THEN added ELSE added \cup {SlotOf(key, subkey)}
        /\ UNCHANGED <<dialog, maxHistSteps, currHistStep, histStepsNum, currHistStepData,
                       histFile, fs, setting, nCommits, committed>>

\* the stamps of the lines of a file
StampsOf(lines) == { lines[k].c : k \in 1..Len(lines) }

\* mutant of ReadMaxHistSteps: the limit read at construction is kept
StaleMaxHistSteps == maxHistSteps

\* lines 2186-2188: UserSettings.Get(group ='vnet', key = 'other', subkey = 'max_hist_steps')
ReadMaxHistSteps == setting

\* mutant of Clear: the pending buffer survives the commit
ClearNothing(d) == d

\* mutant of ResetHistStep: the commit leaves the navigation offset alone
KeepHistStep == currHistStep

\* line 2189: self.currHistStep = 0
ResetHistStep == 0

\* line 2204: self.newHistStepData.clear()
Clear(d) == EmptyDict

\* the lines of a file without its first n steps
DropSteps(lines, n) ==
    LET starts == { k \in 1..Len(lines) : lines[k].s = linesep }
        later  == { k \in starts : Cardinality({ j \in starts : j < k }) >= n }
    IN  IF n <= 0 THEN lines
        ELSE IF later = {} THEN <<>>
        ELSE SubSeq(lines, CHOOSE k \in later : \A j \in later : k <= j, Len(lines))

\* mutant of SaveHistStep: a commit made after undo carries over only the
\* steps from the navigation offset on, as if the redo branch were cut off
SaveHistStepTruncating ==
    /\ nCommits < MaxCommits
    /\ LET max         == ReadMaxHistSteps
           newHistFile == NewTempFile
           newHist     == SaveNewHistStep(newHistStepData, nCommits + 1)
       IN  \E st \in {SavePreviousHist(newHist, DropSteps(fs[histFile], currHistStep), max, 0)} :
           /\ maxHistSteps' = max
           /\ currHistStep' = ResetHistStep
           /\ histStepsNum' = st.histStepsNum
           /\ raised' = st.err
           /\ IF st.err
              THEN /\ fs' = fs @@ (newHistFile :> st.out)
                   /\ ret' = NoneV
                   /\ retSrc' = {}
                   /\ UNCHANGED <<histFile, newHistStepData, added>>
              ELSE /\ fs' = (newHistFile :> st.out)
                   /\ histFile' = newHistFile
                   /\ newHistStepData' = Clear(newHistStepData)
                   /\ ret' = st.removedHistData
                   /\ retSrc' = st.src
                   /\ added' = {}
           /\ nCommits' = nCommits + 1
           /\ committed' =
                  LET all == DictSet(committed, nCommits + 1, newHistStepData)
                  IN  [c \in (DOMAIN all) \cap StampsOf(st.out) |-> all[c]]
    /\ lastOp' = "SaveHistStep"
    /\ args' = <<>>
    /\ prevHistStep' = currHistStep
    /\ UNCHANGED <<dialog, currHistStepData, setting>>

\* mutant of SaveHistStep: the try_remove of line 2201 is missing
SaveHistStepKeepsOldFile ==
    /\ nCommits < MaxCommits
    /\ LET max         == ReadMaxHistSteps
           newHistFile == NewTempFile
           newHist     == SaveNewHistStep(newHistStepData, nCommits + 1)
       IN  \E st \in {SavePreviousHist(newHist, fs[histFile], max, 0)} :
           /\ maxHistSteps' = max
           /\ currHistStep' = ResetHistStep
           /\ histStepsNum' = st.histStepsNum
           /\ raised' = st.err
           /\ fs' = fs @@ (newHistFile :> st.out)
           /\ IF st.err
              THEN /\ ret' = NoneV
                   /\ retSrc' = {}
                   /\ UNCHANGED <<histFile, newHistStepData, added>>
              ELSE /\ histFile' = newHistFile
                   /\ newHistStepData' = Clear(newHistStepData)
                   /\ ret' = st.removedHistData
                   /\ retSrc' = st.src
                   /\ added' = {}
           /\ nCommits' = nCommits + 1
           /\ committed' =
                  LET all == DictSet(committed, nCommits + 1, newHistStepData)
                  IN  [c \in (DOMAIN all) \cap StampsOf(st.out) |-> all[c]]
    /\ lastOp' = "SaveHistStep"
    /\ args' = <<>>
    /\ prevHistStep' = currHistStep
    /\ UNCHANGED <<dialog, currHistStepData, setting>>

\* History.SaveHistStep()
SaveHistStep ==
    /\ nCommits < MaxCommits
    /\ LET max         == ReadMaxHistSteps                \* line 2186
           newHistFile == NewTempFile                     \* line 2191
           \* _saveNewHistStep writes the new step and sets histStepsNum = 0
           newHist     == SaveNewHistStep(newHistStepData, nCommits + 1)
       IN  \E st \in {SavePreviousHist(newHist, fs[histFile], max, 0)} :
           /\ maxHistSteps' = max
           /\ currHistStep' = ResetHistStep
           /\ histStepsNum' = st.histStepsNum
           /\ raised' = st.err
           /\ IF st.err
              THEN \* the exception leaves the new file behind, half written
                   /\ fs' = fs @@ (newHistFile :> st.out)
                   /\ ret' = NoneV
                   /\ retSrc' = {}
                   /\ UNCHANGED <<histFile, newHistStepData, added>>
              ELSE /\ fs' = (newHistFile :> st.out)       \* line 2201
                   /\ histFile' = newHistFile             \* line 2202
                   /\ newHistStepData' = Clear(newHistStepData)
                   /\ ret' = st.removedHistData
                   /\ retSrc' = st.src
                   /\ added' = {}
           /\ nCommits' = nCommits + 1
           /\ committed' =
                  LET all == DictSet(committed, nCommits + 1, newHistStepData)
                  IN  [c \in (DOMAIN all) \cap StampsOf(st.out) |-> all[c]]
    /\ lastOp' = "SaveHistStep"
    /\ args' = <<>>
    /\ prevHistStep' = currHistStep
    /\ UNCHANGED <<dialog, currHistStepData, setting>>

\* mutant of Navigate: the offset is clamped at the newest step
NavigateClamped(delta, op) ==
    \E r \in {GetHistStepData(fs[histFile], IF currHistStep + delta > 0 THEN currHistStep + delta ELSE 0)} :
        /\ currHistStep' = (IF currHistStep + delta > 0 THEN currHistStep + delta ELSE 0)
        /\ currHistStepData' = IF r.err THEN EmptyDict ELSE r.d
        /\ ret' = IF r.err THEN NoneV ELSE r.d
        /\ retSrc' = IF r.err THEN {} ELSE r.src
        /\ raised' = r.err
        /\ lastOp' = op
        /\ args' = <<>>
        /\ prevHistStep' = currHistStep
        /\ UNCHANGED <<dialog, maxHistSteps, histStepsNum, newHistStepData, histFile, fs,
                       setting, added, nCommits, committed>>

\* mutant of Navigate: the clear() of lines 2153 and 2161 hits the pending
\* buffer instead of the cached step data
NavigateClearsPending(delta, op) ==
    \E r \in {GetHistStepData(fs[histFile], currHistStep + delta)} :
        /\ currHistStep' = currHistStep + delta
        /\ currHistStepData' = IF r.err THEN EmptyDict ELSE r.d
        /\ newHistStepData' = EmptyDict
        /\ ret' = IF r.err THEN NoneV ELSE r.d
        /\ retSrc' = IF r.err THEN {} ELSE r.src
        /\ raised' = r.err
        /\ lastOp' = op
        /\ args' = <<>>
        /\ prevHistStep' = currHistStep
        /\ UNCHANGED <<dialog, maxHistSteps, histStepsNum, histFile, fs,
                       setting, added, nCommits, committed>>

\* lines 2152-2156 and 2160-2164: move the offset by delta and load the step
Navigate(delta, op) ==
    \E r \in {GetHistStepData(fs[histFile], currHistStep + delta)} :
        /\ currHistStep' = currHistStep + delta
        /\ currHistStepData' = IF r.err THEN EmptyDict ELSE r.d
        /\ ret' = IF r.err THEN NoneV ELSE r.d
        /\ retSrc' = IF r.err THEN {} ELSE r.src
        /\ raised' = r.err
        /\ lastOp' = op
        /\ args' = <<>>
        /\ prevHistStep' = currHistStep
        /\ UNCHANGED <<dialog, maxHistSteps, histStepsNum, newHistStepData, histFile, fs,
                       setting, added, nCommits, committed>>

\* History.GetNext()
GetNext ==
    /\ currHistStep > 0 - MaxNav
    /\ Navigate(-1, "GetNext")

\* History.GetPrev()
GetPrev ==
    /\ currHistStep < MaxNav
    /\ Navigate(1, "GetPrev")

\* History.GetStepsNum(): return self.histStepsNum
GetStepsNum == histStepsNum

\* History.GetCurrHistStep(): return self.currHistStep
GetCurrHistStep == currHistStep

Next ==
    \/ \E m \in SettingValues : UpdateSettings(m)
    \/ \E a \in AddInputs : Add(a.key, a.subkey, a.value)
    \/ SaveHistStep
    \/ GetNext
    \/ GetPrev

Spec == Init /\ [][Next]_vars

\* the same program while nobody changes the max_hist_steps setting
NextFixed ==
    \/ \E a \in AddInputs : Add(a.key, a.subkey, a.value)
    \/ SaveHistStep
    \/ GetNext
    \/ GetPrev

SpecFixed == Init /\ [][NextFixed]_vars

\* values of the types a step data holds: integers, booleans, None,
\* strings, 3-tuples of integers (colours) and flat lists of such scalars
BoolV(b)  == [t |-> "bool", v |-> b]

TupleV(s) == [t |-> "tuple", v |-> s]

SupportedValues ==
    { IntV(7), IntV(0), IntV(0 - 3),
      BoolV(TRUE), BoolV(FALSE), NoneV,
      StrV(<<"x">>), StrV(<<>>),
      TupleV(<<192, 0, 0>>), TupleV(<<0 - 1, 0, 255>>),
      ListV(<<IntV(1), IntV(2), IntV(3)>>), ListV(<<IntV(0 - 5)>>),
      ListV(<<StrV(<<"a">>), StrV(<<"b">>)>>) }

\* each value under a flat subkey and under a (group, leaf) path
ValueInputs ==
    { [key |-> a[1], subkey |-> a[2], value |-> v] :
        a \in { <<points, ListV(<<pt0, cat>>)>>, <<tmp_data, StrV(maps)>> },
        v \in SupportedValues }

\* the caller Adds one value, commits it, and then commits empty steps and
\* moves the offset
NextValues ==
    \/ \E a \in ValueInputs :
          /\ nCommits = 0
          /\ newHistStepData = EmptyDict
          /\ Add(a.key, a.subkey, a.value)
    \/ SaveHistStep
    \/ GetNext
    \/ GetPrev

SpecValues == Init /\ [][NextValues]_vars

\* an empty string or an integer under each of three leaves of a group and
\* under each of three flat subkeys of another key
EmptyInputs ==
    { [key |-> a[1], subkey |-> a[2], value |-> v] :
        a \in { <<points, ListV(<<pt0, cat>>)>>,
                <<points, ListV(<<pt0, topology>>)>>,
                <<points, ListV(<<pt0, checked>>)>>,
                <<tmp_data, StrV(maps)>>,
                <<tmp_data, StrV(cat)>>,
                <<tmp_data, StrV(topology)>> },
        v \in { StrV(<<>>), IntV(7) } }

\* the caller fills the group or the flat key before the first commit, and
\* then commits empty steps and moves the offset
NextEmpty ==
    \/ \E a \in EmptyInputs :
          /\ nCommits = 0
          /\ DOMAIN newHistStepData \subseteq {a.key}
          /\ Add(a.key, a.subkey, a.value)
    \/ SaveHistStep
    \/ GetNext
    \/ GetPrev

SpecEmpty == Init /\ [][NextEmpty]_vars

\* the History object exists: __del__ has not run
Alive == lastOp # "__del__"

\* History.__del__(): grass.try_remove(self.histFile)
Del ==
    /\ Alive
    /\ fs' = [p \in (DOMAIN fs) \ {histFile} |-> fs[p]]
    /\ lastOp' = "__del__"
    /\ args' = <<>>
    /\ ret' = NoneV
    /\ raised' = FALSE
    /\ retSrc' = {}
    /\ prevHistStep' = currHistStep
    /\ UNCHANGED <<dialog, maxHistSteps, currHistStep, histStepsNum, currHistStepData,
                   newHistStepData, histFile, setting, added, nCommits, committed>>

\* the whole life of the object: the operations while it exists, then
\* __del__, after which nothing is called
NextLife ==
    \/ Alive /\ \E m \in SettingValues : UpdateSettings(m)
    \/ Alive /\ \E a \in AddInputs : Add(a.key, a.subkey, a.value)
    \/ Alive /\ SaveHistStep
    \/ Alive /\ GetNext
    \/ Alive /\ GetPrev
    \/ Del

SpecLife == Init /\ [][NextLife]_vars

\* what the loop body of _saveNewHistStep writes for one top-level key when
\* keys() lists its subkeys in the order subkeys (lines 2245-2269)
KeyTextOrdered(key, entries, subkeys) ==
    key \o sep
    \o Concat([idx \in 1..Len(subkeys) |-> SubkeyText(key, entries, subkeys, idx)])
    \o linesep

\* _parseLine applied to the lines one after the other, into histStepData
RECURSIVE ParseLines(_, _)
ParseLines(lines, histStepData) ==
    IF Len(lines) = 0 THEN [err |-> FALSE, d |-> histStepData]
    ELSE LET r == ParseLine(lines[1], histStepData)
         IN  IF r.err THEN r ELSE ParseLines(Tail(lines), r.d)

\* the orders in which keys() can list the names of a dictionary
OrdersOf(names) ==
    { s \in [1..Cardinality(names) -> names] : \A i, j \in 1..Cardinality(names) : s[i] = s[j] => i = j }

\* each of three names of one key as a flat subkey or as a group with the
\* leaf cat or checked
MixedInputs ==
    { [key |-> points, subkey |-> sk, value |-> IntV(7)] :
        sk \in UNION { { StrV(n), ListV(<<n, cat>>), ListV(<<n, checked>>) } : n \in {pt0, maps, topology} } }

\* the lines _saveNewHistStep writes for the key, its subkeys taken in the
\* order subkeys, are parsed by _parseLine into an empty step data
WriteAndParse(key, subkeys) ==
    \E r \in {ParseLines(ReadLines(KeyTextOrdered(key, newHistStepData[key], subkeys)), EmptyDict)} :
        /\ lastOp' = "_parseLine"
        /\ args' = [key |-> key, subkeys |-> subkeys]
        /\ ret' = r.d
        /\ raised' = r.err
        /\ retSrc' = {}
        /\ prevHistStep' = currHistStep
        /\ UNCHANGED <<dialog, maxHistSteps, currHistStep, histStepsNum, currHistStepData,
                       newHistStepData, histFile, fs, setting, added, nCommits, committed>>

NextLines ==
    \/ \E a \in MixedInputs : Add(a.key, a.subkey, a.value)
    \/ \E key \in DOMAIN newHistStepData :
          \E subkeys \in OrdersOf(DOMAIN newHistStepData[key]) : WriteAndParse(key, subkeys)

SpecLines == Init /\ [][NextLines]_vars

\* the longest field built from FieldChars
MaxFieldLen == 3

\* characters that decide how _parseValue reads a field
FieldChars == {"1", "-", ":", "[", "]", ".", "x", ","}

\* stored fields: every text of up to MaxFieldLen of these characters, the
\* literals, and some longer colours, lists and numbers
Fields ==
    UNION { [1..n -> FieldChars] : n \in 0..MaxFieldLen }
    \cup { True_, False_, None_,
           <<"1", "9", "2", ":", "0", ":", "0">>,
           <<"1", ":", "-", "1", ":", "1", ":", "1">>,
           <<"1", ":", "x", ":", "1">>,
           <<"[", "1", ",", " ", "1", "]">>,
           <<"T", "r", "u", "e", " ">>,
           <<"1", "e", "1">>,
           <<"n", "a", "n">>,
           <<" ", "1", " ">> }

\* _parseValue(value, read = True) is called on a stored field; a behaviour
\* decodes one field
DecodeField(value) ==
    /\ lastOp = "init"
    /\ lastOp' = "_parseValue"
    /\ args' = [value |-> value]
    /\ ret' = ParseValueRead(value)
    /\ raised' = FALSE
    /\ retSrc' = {}
    /\ prevHistStep' = currHistStep
    /\ UNCHANGED <<dialog, maxHistSteps, currHistStep, histStepsNum, currHistStepData,
                   newHistStepData, histFile, fs, setting, added, nCommits, committed>>

NextFields == \E value \in Fields : DecodeField(value)

SpecFields == Init /\ [][NextFields]_vars

\* a string value with a line break in it next to an integer: written as
\* it is, the string ends its key line early and leaves a line of one field
NewlineInputs ==
    { [key |-> tmp_data, subkey |-> StrV(maps), value |-> StrV(<<"a", "\n", "b">>)],
      [key |-> points,   subkey |-> ListV(<<pt0, cat>>), value |-> IntV(7)] }

NextMalformed ==
    \/ \E a \in NewlineInputs : Add(a.key, a.subkey, a.value)
    \/ SaveHistStep
    \/ GetNext
    \/ GetPrev

SpecMalformed == Init /\ [][NextMalformed]_vars

(***************************************************************************)
(* SaveHistStep statement by statement (lines 2186-2206): lastOp is the    *)
(* line the call is about to run and args holds its locals, so that every  *)
(* point at which the call can be interrupted is a state.                  *)
(***************************************************************************)
InSaveHistStep ==
    lastOp \in {"SaveHistStep:2194", "SaveHistStep:2196", "SaveHistStep:2199",
                "SaveHistStep:2201", "SaveHistStep:2202", "SaveHistStep:2204"}

\* lines 2186-2192: read the limit, reset the offset, create and open newHistFile
SaveHistStepOpen ==
    /\ ~InSaveHistStep
    /\ nCommits < MaxCommits
    /\ maxHistSteps' = ReadMaxHistSteps
    /\ currHistStep' = ResetHistStep
    /\ fs' = fs @@ (NewTempFile :> <<>>)
    /\ lastOp' = "SaveHistStep:2194"
    /\ args' = [newHistFile |-> NewTempFile]
    /\ ret' = NoneV
    /\ raised' = FALSE
    /\ retSrc' = {}
    /\ prevHistStep' = currHistStep
    /\ UNCHANGED <<dialog, histStepsNum, currHistStepData, newHistStepData, histFile,
                   setting, added, nCommits, committed>>

\* line 2194: self._saveNewHistStep(newHist)
SaveHistStepNew ==
    /\ lastOp = "SaveHistStep:2194"
    /\ fs' = [fs EXCEPT ![args.newHistFile] = SaveNewHistStep(newHistStepData, nCommits + 1)]
    /\ histStepsNum' = 0
    /\ lastOp' = "SaveHistStep:2196"
    /\ UNCHANGED <<dialog, maxHistSteps, currHistStep, currHistStepData, newHistStepData,
                   histFile, setting, args, ret, raised, retSrc, prevHistStep,
                   added, nCommits, committed>>

\* lines 2196-2197: removedHistData = self._savePreviousHist(newHist, oldHist)
SaveHistStepPrevious ==
    /\ lastOp = "SaveHistStep:2196"
    /\ \E st \in {SavePreviousHist(fs[args.newHistFile], fs[histFile], maxHistSteps, histStepsNum)} :
          /\ fs' = [fs EXCEPT ![args.newHistFile] = st.out]
          /\ histStepsNum' = st.histStepsNum
          /\ raised' = st.err
          /\ IF st.err
             THEN lastOp' = "SaveHistStep" /\ args' = <<>>
             ELSE /\ lastOp' = "SaveHistStep:2199"
                  /\ args' = [newHistFile |-> args.newHistFile,
                              removedHistData |-> st.removedHistData, src |-> st.src]
    /\ UNCHANGED <<dialog, maxHistSteps, currHistStep, currHistStepData, newHistStepData,
                   histFile, setting, ret, retSrc, prevHistStep, added, nCommits,
                   committed>>

\* lines 2199-2200: oldHist.close(); newHist.close()
SaveHistStepClose ==
    /\ lastOp = "SaveHistStep:2199"
    /\ lastOp' = "SaveHistStep:2201"
    /\ UNCHANGED <<dialog, maxHistSteps, currHistStep, histStepsNum, currHistStepData,
                   newHistStepData, histFile, fs, setting, args, ret, raised,
                   retSrc, prevHistStep, added, nCommits, committed>>

\* mutant of SaveHistStepRemove: the old file is removed right after the
\* new one was opened
SaveHistStepRemoveFirst ==
    /\ lastOp = "SaveHistStep:2194"
    /\ fs' = [p \in (DOMAIN fs) \ {histFile} |-> fs[p]]
    /\ lastOp' = "SaveHistStep:2202"
    /\ UNCHANGED <<dialog, maxHistSteps, currHistStep, histStepsNum, currHistStepData,
                   newHistStepData, histFile, setting, args, ret, raised,
                   retSrc, prevHistStep, added, nCommits, committed>>

\* line 2201: grass.try_remove(self.histFile)
SaveHistStepRemove ==
    /\ lastOp = "SaveHistStep:2201"
    /\ fs' = [p \in (DOMAIN fs) \ {histFile} |-> fs[p]]
    /\ lastOp' = "SaveHistStep:2202"
    /\ UNCHANGED <<dialog, maxHistSteps, currHistStep, histStepsNum, currHistStepData,
                   newHistStepData, histFile, setting, args, ret, raised,
                   retSrc, prevHistStep, added, nCommits, committed>>

\* line 2202: self.histFile = newHistFile
SaveHistStepRepoint ==
    /\ lastOp = "SaveHistStep:2202"
    /\ histFile' = args.newHistFile
    /\ lastOp' = "SaveHistStep:2204"
    /\ UNCHANGED <<dialog, maxHistSteps, currHistStep, histStepsNum, currHistStepData,
                   newHistStepData, fs, setting, args, ret, raised, retSrc,
                   prevHistStep, added, nCommits, committed>>

\* lines 2204-2206: clear the pending buffer and return removedHistData
SaveHistStepReturn ==
    /\ lastOp = "SaveHistStep:2204"
    /\ newHistStepData' = Clear(newHistStepData)
    /\ ret' = args.removedHistData
    /\ retSrc' = args.src
    /\ added' = {}
    /\ nCommits' = nCommits + 1
    /\ committed' =
           LET all == DictSet(committed, nCommits + 1, newHistStepData)
           IN  [c \in (DOMAIN all) \cap StampsOf(fs[histFile]) |-> all[c]]
    /\ lastOp' = "SaveHistStep"
    /\ args' = <<>>
    /\ UNCHANGED <<dialog, maxHistSteps, currHistStep, histStepsNum, currHistStepData,
                   histFile, fs, setting, raised, prevHistStep>>

\* the GUI thread runs one call at a time: the other operations start only
\* while no SaveHistStep is running
NextSteps ==
    \/ ~InSaveHistStep /\ \E a \in AddInputs : Add(a.key, a.subkey, a.value)
    \/ ~InSaveHistStep /\ GetNext
    \/ ~InSaveHistStep /\ GetPrev
    \/ SaveHistStepOpen
    \/ SaveHistStepNew
    \/ SaveHistStepPrevious
    \/ SaveHistStepClose
    \/ SaveHistStepRemove
    \/ SaveHistStepRepoint
    \/ SaveHistStepReturn

SpecSteps == Init /\ [][NextSteps]_vars

(***************************************************************************)
(* VNETDialog: the analyses that commit steps, and the temporary maps.     *)
(***************************************************************************)
vnet_tmp_result  == <<"v","n","e","t","_","t","m","p","_","r","e","s","u","l","t">>

vnet_tmp_flow_cut == <<"v","n","e","t","_","t","m","p","_","f","l","o","w","_","c","u","t">>

vnet_tmp_in_pts  == <<"v","n","e","t","_","t","m","p","_","i","n","_","p","t","s">>

vnet_tmp_in_pts_connected == vnet_tmp_in_pts \o <<"_","c","o","n","n","e","c","t","e","d">>

v_net_flow == <<"v",".","n","e","t",".","f","l","o","w">>

v_net_iso  == <<"v",".","n","e","t",".","i","s","o">>

\* grass.gisenv()['MAPSET']
currMapSet == <<"u","s","e","r","1">>

\* the analyses started: v.net.flow records two temporary maps in its
\* step, v.net.iso (like the other modules) one
AnModules == {v_net_flow, v_net_iso}

\* VnetTmpVectMaps.AddTmpVectMap, no map of that name existing yet: the
\* full name of the new map
FullName(mapName) == mapName \o <<"@">> \o currMapSet

\* VnetTmpVectMaps.GetTmpVectMap(vectMapName): the place of the map in the
\* registry, 0 for None
GetTmpVectMap(maps_, vectMapName) ==
    LET hits == { k \in 1..Len(maps_) : maps_[k] = Strip(vectMapName) }
    IN  IF hits = {} THEN 0 ELSE CHOOSE k \in hits : \A j \in hits : k <= j

\* VnetTmpVectMaps.DeleteTmpMap(vectMap), vectMap being the k-th registered
\* map: g.remove and RemoveFromTmpMaps
DeleteTmpMap(maps_, k) == [j \in 1..(Len(maps_) - 1) |-> IF j < k THEN maps_[j] ELSE maps_[j+1]]

\* the calls of History.Add one after the other
RECURSIVE AddAll(_, _)
AddAll(d, calls) ==
    IF Len(calls) = 0 THEN d
    ELSE AddAll(AddTo(d, calls[1].key, calls[1].subkey, calls[1].value).d, Tail(calls))

\* _saveAnInputToHist for a list of one point: its cat, topology and
\* checked entries, and the module
SaveAnInputToHist(module) ==
    << [key |-> points, subkey |-> ListV(<<pt0, cat>>), value |-> StrV(<<"x">>)],
       [key |-> points, subkey |-> ListV(<<pt0, topology>>), value |-> StrV(<<>>)],
       [key |-> points, subkey |-> ListV(<<pt0, checked>>), value |-> BoolV(TRUE)],
       [key |-> vnet_modules, subkey |-> StrV(curr_module), value |-> StrV(module)] >>

\* VNETDialog.OnAnalyze with _runAn, up to the start of the analysis command
OnAnalyze(module) ==
    /\ onDone = "none"
    /\ nCommits < MaxCommits
    /\ LET result == FullName(vnet_tmp_result \o StrNat(histTmpVectMapNum))
           cut    == FullName(vnet_tmp_flow_cut \o StrNat(histTmpVectMapNum + 1))
           toHist == IF module = v_net_flow THEN <<StrV(result), StrV(cut)>>
                     ELSE <<StrV(result)>>
           calls  == << [key |-> tmp_data, subkey |-> StrV(maps), value |-> ListV(<<StrV(result)>>)] >>
                     \o SaveAnInputToHist(module)
                     \o (IF module = v_net_flow
                         THEN << [key |-> tmp_data, subkey |-> StrV(maps), value |-> ListV(toHist)] >>
                         ELSE <<>>)
       IN  /\ tmpVectMapsToHist' = toHist
           /\ histTmpVectMapNum' = histTmpVectMapNum + Len(toHist)
           /\ tmpMaps' = tmpMaps \o <<result, FullName(vnet_tmp_in_pts),
                                      FullName(vnet_tmp_in_pts_connected)>>
                                 \o (IF module = v_net_flow THEN <<cut>> ELSE <<>>)
           /\ newHistStepData' = AddAll(newHistStepData, calls)
           /\ added' = added \cup { SlotOf(calls[k].key, calls[k].subkey) : k \in 1..Len(calls) }
    /\ onDone' = "_runAnDone"
    /\ lastOp' = "OnAnalyze"
    /\ args' = [module |-> module]
    /\ ret' = NoneV
    /\ raised' = FALSE
    /\ retSrc' = {}
    /\ prevHistStep' = currHistStep
    /\ UNCHANGED <<maxHistSteps, currHistStep, histStepsNum, currHistStepData,
                   histFile, fs, setting, nCommits, committed>>

\* VNETDialog._runAnDone up to its call of _saveHistStep (lines 903-905)
RunAnDone ==
    /\ onDone = "_runAnDone"
    /\ tmpMaps' =
          LET m1 == DeleteTmpMap(tmpMaps, GetTmpVectMap(tmpMaps, FullName(vnet_tmp_in_pts)))
          IN  DeleteTmpMap(m1, GetTmpVectMap(m1, FullName(vnet_tmp_in_pts_connected)))
    /\ onDone' = "_saveHistStep"
    /\ lastOp' = "_runAnDone"
    /\ UNCHANGED <<maxHistSteps, currHistStep, histStepsNum, currHistStepData,
                   newHistStepData, histFile, fs, setting, args, ret, raised,
                   retSrc, prevHistStep, added, nCommits, committed,
                   tmpVectMapsToHist, histTmpVectMapNum>>

\* lines 1348-1350 for the names of one evicted step, from the k-th on:
\* a name that is not registered makes GetTmpVectMap return None, and
\* DeleteTmpMap(None) raises AttributeError
RECURSIVE DeleteMapsOf(_, _, _)
DeleteMapsOf(maps_, mapsNames, k) ==
    IF k > Len(mapsNames) THEN [tmpMaps |-> maps_, err |-> FALSE]
    ELSE IF mapsNames[k].t # "str" THEN [tmpMaps |-> maps_, err |-> TRUE]
    ELSE LET found == GetTmpVectMap(maps_, mapsNames[k].v)
         IN  IF found = 0 THEN [tmpMaps |-> maps_, err |-> TRUE]
             ELSE DeleteMapsOf(DeleteTmpMap(maps_, found), mapsNames, k + 1)

\* the names a str iterates over: its characters
CharsOf(text) == [k \in 1..Len(text) |-> StrV(<<text[k]>>)]

\* lines 1346-1350: the loop over the evicted steps, in the order steps of
\* removedHistData.itervalues()
RECURSIVE DeleteRemoved(_, _, _, _)
DeleteRemoved(maps_, removedHistData, steps, i) ==
    IF i > Len(steps) THEN [tmpMaps |-> maps_, err |-> FALSE]
    ELSE
    LET removedStep == removedHistData[steps[i]]
    IN  IF tmp_data \notin DOMAIN removedStep \/ maps \notin DOMAIN removedStep[tmp_data]
        THEN [tmpMaps |-> maps_, err |-> TRUE]
        ELSE
        LET value     == removedStep[tmp_data][maps]
            mapsNames == IF value.t = "list" THEN value.v
                         ELSE IF value.t = "str" THEN CharsOf(value.v) ELSE <<>>
            r         == DeleteMapsOf(maps_, mapsNames, 1)
        IN  IF value.t \notin {"list", "str"} \/ r.err
            THEN [tmpMaps |-> r.tmpMaps, err |-> TRUE]
            ELSE DeleteRemoved(r.tmpMaps, removedHistData, steps, i + 1)

\* VNETDialog._saveHistStep after its call of History.SaveHistStep
\* (lines 1341-1350): ret is removedHistData
SaveHistStepCleanup ==
    /\ onDone = "_saveHistStep"
    /\ lastOp = "SaveHistStep"
    /\ IF raised
       THEN UNCHANGED <<tmpMaps, raised>>
       ELSE \E steps \in OrdersOf(DOMAIN ret) :
               \E r \in {DeleteRemoved(tmpMaps, ret, steps, 1)} :
                  /\ tmpMaps' = r.tmpMaps
                  /\ raised' = r.err
    /\ onDone' = "none"
    /\ lastOp' = "_saveHistStep"
    /\ UNCHANGED <<maxHistSteps, currHistStep, histStepsNum, currHistStepData,
                   newHistStepData, histFile, fs, setting, args, ret,
                   retSrc, prevHistStep, added, nCommits, committed,
                   tmpVectMapsToHist, histTmpVectMapNum>>

\* the dialog: analyses, their callback, undo and redo (OnUndo and OnRedo
\* call GetPrev and GetNext), and changes of the setting
NextDialog ==
    \/ \E module \in AnModules : OnAnalyze(module)
    \/ RunAnDone
    \/ onDone = "_saveHistStep" /\ lastOp = "_runAnDone" /\ SaveHistStep
    \/ SaveHistStepCleanup
    \/ onDone # "_saveHistStep" /\ GetPrev
    \/ onDone # "_saveHistStep" /\ GetNext
    \/ onDone # "_saveHistStep" /\ \E m \in SettingValues : UpdateSettings(m)

SpecDialog == Init /\ [][NextDialog]_vars

\* The program after Add(points, [pt0, cat], 7) and SaveHistStep(), the limit
\* being 1, from where Add is called with the richer inputs and the offset
\* moves.
InitAdd ==
    /\ maxHistSteps = 1
    /\ currHistStep = 0
    /\ histStepsNum = 0
    /\ currHistStepData = EmptyDict
    /\ newHistStepData = EmptyDict
    /\ histFile = 2
    /\ fs = (2 :> SaveNewHistStep(AddTo(EmptyDict, points, ListV(<<pt0, cat>>), IntV(7)).d, 1))
    /\ setting = 1
    /\ lastOp = "SaveHistStep"
    /\ args = <<>>
    /\ ret = EmptyDict
    /\ raised = FALSE
    /\ retSrc = EmptyDict
    /\ prevHistStep = 0
    /\ added = {}
    /\ nCommits = 1
    /\ committed = (1 :> AddTo(EmptyDict, points, ListV(<<pt0, cat>>), IntV(7)).d)
    /\ tmpMaps = <<>>
    /\ tmpVectMapsToHist = <<>>
    /\ histTmpVectMapNum = 0
    /\ onDone = "none"

NextAdd ==
    \/ \E a \in AddInputsRich : Add(a.key, a.subkey, a.value)
    \/ GetNext
    \/ GetPrev

SpecAdd == InitAdd /\ [][NextAdd]_vars

(***************************************************************************)
(* Reading a backing file independently of the code: its steps.            *)
(* A step starts at a blank line; the line after it is its header and the  *)
(* lines up to the next blank line are its key lines.                      *)
(***************************************************************************)
File == fs[histFile]

\* the line is made of white space only (its strip() is empty)
BlankAt(lines, k) == \A j \in 1..Len(lines[k].s) : lines[k].s[j] \in Whitespace

StepStarts(lines) == { k \in 1..Len(lines) : BlankAt(lines, k) }

NumSteps(lines) == Cardinality(StepStarts(lines))

\* the line number of the blank line that starts the i-th step
StartOf(lines, i) ==
    CHOOSE k \in StepStarts(lines) : Cardinality({ j \in StepStarts(lines) : j < k }) = i - 1

\* the i-th step of the file: stored index, key lines, stamps of its lines
StepAt(lines, i) ==
    LET b == StartOf(lines, i)
        e == IF i < NumSteps(lines) THEN StartOf(lines, i + 1) ELSE Len(lines) + 1
    IN  [idx     |-> IntOf(Split(lines[b+1].s, "=")[2]),
         payload |-> [j \in 1..(e - b - 2) |-> lines[b+1+j].s],
         c       |-> { lines[j].c : j \in b..(e-1) }]

\* the file is a sequence of steps and nothing else: it starts with a blank
\* line, every blank line is an empty line followed by a header
\* "history step=<n>", and no line is left unterminated
WellFormed(lines) ==
    /\ Len(lines) > 0 => BlankAt(lines, 1)
    /\ \A k \in 1..Len(lines) :
          /\ lines[k].s[Len(lines[k].s)] = "\n"
          /\ BlankAt(lines, k) =>
                /\ lines[k].s = linesep
                /\ k < Len(lines)
                /\ \E n \in 0..MaxCommits :
                      lines[k+1].s = HistoryStep \o <<"=">> \o StrInt(n) \o linesep

\* the key lines the pending buffer data is written as
PendingLines(data) ==
    LET keys == KeysOf(data)
    IN  ReadLines(Concat([k \in 1..Len(keys) |-> KeyText(keys[k], data[keys[k]])]))

\* the step data a sequence of key lines stands for
RECURSIVE ParseAll(_, _)
ParseAll(payload, d) ==
    IF Len(payload) = 0 THEN d
    ELSE ParseAll(Tail(payload), ParseLine(payload[1], d).d)

\* the slots of a step data or of the pending buffer, and the value of one
FlatSlots(d, k) == { <<k, n>> : n \in { n \in DOMAIN d[k] : d[k][n].t # "dict" } }

GroupSlots(d, k) ==
    UNION { { <<k, g, l>> : l \in DOMAIN d[k][g].v } :
            g \in { g \in DOMAIN d[k] : d[k][g].t = "dict" } }

SlotsOf(d) == UNION { FlatSlots(d, k) \cup GroupSlots(d, k) : k \in DOMAIN d }

Lookup(d, slot) == IF Len(slot) = 3 THEN d[slot[1]][slot[2]].v[slot[3]] ELSE d[slot[1]][slot[2]]

\* a step of the behaviour is a completed SaveHistStep
Committing == nCommits' = nCommits + 1 /\ ~raised'

\* the step is a call of the History operation op (a change of the setting
\* is no call and leaves lastOp as it was)
Called(op) == lastOp' = op /\ setting' = setting

Max0(n) == IF n > 0 THEN n ELSE 0


(***************************************************************************)
(* The claims.                                                             *)
(***************************************************************************)

\* C1: in every reachable state the number of steps in the backing file is
\* at most maxHistSteps, the limit read by the most recent SaveHistStep
\* (the limit of __init__ before the first one).
C1_RetainedWithinLimit == NumSteps(File) <= maxHistSteps

\* a commit evicted a step and left the file filled up to the limit
C1_Witness ==
    /\ lastOp = "SaveHistStep"
    /\ DOMAIN ret # {}
    /\ NumSteps(File) = maxHistSteps

\* C2: a completed SaveHistStep leaves a file that is exactly the pending
\* buffer as step 0 followed by the old steps whose new index (old index
\* + 1) is below maxHistSteps, in their old order, renumbered, with their
\* key lines unchanged; no line of an evicted step is left in it.
C2_FileAfterCommit ==
    [][ Committing =>
        LET old  == fs[histFile]
            new  == fs'[histFile']
            kept == { i \in 1..NumSteps(old) : StepAt(old, i).idx + 1 < maxHistSteps' }
        IN  /\ WellFormed(new)
            /\ NumSteps(new) = 1 + Cardinality(kept)
            /\ StepAt(new, 1).idx = 0
            /\ StepAt(new, 1).payload = PendingLines(newHistStepData)
            /\ StepAt(new, 1).c = {nCommits'}
            /\ \A i \in kept :
                  /\ i + 1 <= NumSteps(new)
                  /\ StepAt(new, i + 1).idx = StepAt(old, i).idx + 1
                  /\ StepAt(new, i + 1).payload = StepAt(old, i).payload
                  /\ StepAt(new, i + 1).c = StepAt(old, i).c
            /\ \A i \in (1..NumSteps(old)) \ kept :
                  StepAt(old, i).c \cap StampsOf(new) = {}
      ]_vars

\* a commit that kept one old step with key lines under a new step with
\* key lines, and evicted another
C2_Witness ==
    /\ lastOp = "SaveHistStep"
    /\ DOMAIN ret # {}
    /\ NumSteps(File) = 2
    /\ StepAt(File, 1).payload # <<>>
    /\ StepAt(File, 2).payload # <<>>

\* C3: whenever a SaveHistStep evicts steps, every evicted step was
\* committed before every step the file retains afterwards.
C3_EvictionIsFifo ==
    (lastOp = "SaveHistStep" /\ ~raised) =>
        \A h \in DOMAIN retSrc : \A e \in retSrc[h] : \A r \in StampsOf(File) : e < r

\* the third commit evicted a step and retained an older one next to the new
C3_Witness ==
    /\ lastOp = "SaveHistStep"
    /\ nCommits = 3
    /\ DOMAIN retSrc # {}
    /\ Cardinality(StampsOf(File)) = 2

\* C4: while the limit stays k, the first k commits report no eviction, the
\* (k+1)-th reports exactly one evicted step, the first committed one (the
\* data the oldest step of the file held), and no GetPrev or GetNext after
\* it returns data read from that step.
C4_FixedLimitEviction ==
    [][ /\ (Committing /\ nCommits' <= setting) => ret' = EmptyDict
        /\ (Committing /\ nCommits' = setting + 1) =>
              /\ Cardinality(DOMAIN ret') = 1
              /\ StepAt(fs[histFile], setting).c = {1}
              /\ \A h \in DOMAIN ret' :
                    /\ retSrc'[h] = {1}
                    /\ ret'[h] = ParseAll(StepAt(fs[histFile], setting).payload, EmptyDict)
        /\ ((Called("GetPrev") \/ Called("GetNext")) /\ nCommits > setting) => 1 \notin retSrc'
      ]_vars

\* after commit k+1 (k = 2) GetPrev walked to where the first step would be
\* and found nothing
C4_Witness ==
    /\ lastOp = "GetPrev"
    /\ setting = 2
    /\ nCommits = setting + 1
    /\ currHistStep = setting
    /\ ret = EmptyDict

\* C5: SaveHistStep returns one entry per evicted step, under distinct
\* keys, whose value is the step data that was committed for that step
\* (every key, group, subkey and value); no eviction, empty mapping.
C5_EvictedMapIsCommittedData ==
    [][ Committing =>
        LET evicted == StampsOf(fs[histFile]) \ StampsOf(fs'[histFile'])
        IN  /\ Cardinality(DOMAIN ret') = Cardinality(evicted)
            /\ \A c \in evicted :
                  \E h \in DOMAIN ret' : retSrc'[h] = {c} /\ ret'[h] = committed[c]
      ]_vars

\* what holds of the returned mapping: the entries are the evicted steps,
\* each with the slots committed for it, and with the committed values in
\* the slots that do not hold a list of strings
C5_EvictedMapShape ==
    [][ Committing =>
        LET evicted == StampsOf(fs[histFile]) \ StampsOf(fs'[histFile'])
        IN  /\ Cardinality(DOMAIN ret') = Cardinality(evicted)
            /\ \A c \in evicted :
                  \E h \in DOMAIN ret' :
                     /\ retSrc'[h] = {c}
                     /\ SlotsOf(ret'[h]) = SlotsOf(committed[c])
                     /\ \A sl \in SlotsOf(committed[c]) :
                           Lookup(committed[c], sl).t # "list"
                              => Lookup(ret'[h], sl) = Lookup(committed[c], sl)
      ]_vars


\* C6: every SaveHistStep reads the limit from the settings and evicts by
\* it: with n steps in the file and the limit m read, the commit evicts
\* exactly max(0, n + 1 - m) steps and retains the others.
C6_LimitReadAtCommit ==
    [][ Committing =>
        LET n == NumSteps(fs[histFile])
            m == setting
        IN  /\ maxHistSteps' = m
            /\ Cardinality(DOMAIN ret') = Max0(n + 1 - m)
            /\ NumSteps(fs'[histFile']) = n + 1 - Max0(n + 1 - m)
      ]_vars

\* one commit evicted two steps: the limit had shrunk since the commit before
C6_Witness ==
    /\ lastOp = "SaveHistStep"
    /\ Cardinality(DOMAIN ret) = 2
    /\ maxHistSteps = 1

\* C7: after every SaveHistStep the navigation offset is 0, whatever it was
\* before.
C7_OffsetResetByCommit == lastOp = "SaveHistStep" => currHistStep = 0

\* a commit made while the offset pointed beyond the oldest retained step
C7_Witness ==
    /\ lastOp = "SaveHistStep"
    /\ prevHistStep = MaxNav
    /\ currHistStep = 0

\* C8: a completed SaveHistStep leaves the pending buffer empty, and the
\* step it wrote holds exactly the slots Added since the commit before.
C8_BufferClearedByCommit ==
    [][ Committing =>
           /\ newHistStepData' = EmptyDict
           /\ SlotsOf(ParseAll(StepAt(fs'[histFile'], 1).payload, EmptyDict)) = added
      ]_vars

\* a step with no slot was committed on top of a step that has slots
C8_Witness ==
    /\ lastOp = "SaveHistStep"
    /\ newHistStepData = EmptyDict
    /\ NumSteps(File) = 2
    /\ StepAt(File, 1).payload = <<>>
    /\ StepAt(File, 2).payload # <<>>

\* C9: Add(key, subkey, value) puts value into the slot (key, subkey) or
\* (key, group, leaf) of the pending buffer, adds no other slot, keeps the
\* value of every other slot, and changes neither the backing file nor
\* histStepsNum nor the navigation offset.
C9_AddTouchesOneSlot ==
    [][ (Called("Add") /\ ~raised') =>
        LET slot == SlotOf(args'.key, args'.subkey)
        IN  /\ SlotsOf(newHistStepData') = SlotsOf(newHistStepData) \cup {slot}
            /\ Lookup(newHistStepData', slot) = args'.value
            /\ \A sl \in SlotsOf(newHistStepData) \ {slot} :
                  Lookup(newHistStepData', sl) = Lookup(newHistStepData, sl)
            /\ UNCHANGED <<fs, histFile, histStepsNum, currHistStep>>
      ]_vars

\* an Add into a buffer that holds two other slots, one of them in the same
\* group, with a committed step in the file and the offset moved
C9_Witness ==
    /\ lastOp = "Add"
    /\ args.value = StrV(<<"x">>)
    /\ Cardinality(SlotsOf(newHistStepData)) = 3
    /\ NumSteps(File) = 1
    /\ currHistStep # 0

\* the state SpecAdd starts from is a state of the program
C9_InitAddReached ==
    /\ lastOp = "SaveHistStep"
    /\ nCommits = 1
    /\ maxHistSteps = 1
    /\ setting = 1
    /\ prevHistStep = 0
    /\ currHistStepData = EmptyDict
    /\ committed = (1 :> AddTo(EmptyDict, points, ListV(<<pt0, cat>>), IntV(7)).d)

\* C10: GetPrev adds 1 to the navigation offset, GetNext subtracts 1, and
\* when the file has a step whose stored index is the new offset the call
\* returns the data of the key lines of that step and of no other line.
C10_NavigateLoadsStep ==
    [][ /\ Called("GetPrev") => currHistStep' = currHistStep + 1
        /\ Called("GetNext") => currHistStep' = currHistStep - 1
        /\ (Called("GetPrev") \/ Called("GetNext")) =>
              \A i \in 1..NumSteps(File) :
                 StepAt(File, i).idx = currHistStep' =>
                    /\ ~raised'
                    /\ ret' = ParseAll(StepAt(File, i).payload, EmptyDict)
                    /\ retSrc' = StepAt(File, i).c
      ]_vars

\* GetNext came back from beyond the oldest step and loaded step 1
C10_Witness ==
    /\ lastOp = "GetNext"
    /\ prevHistStep = 2
    /\ currHistStep = 1
    /\ ret # EmptyDict

\* the step is a call of GetPrev or of GetNext
Navigating == Called("GetPrev") \/ Called("GetNext")

\* the stored indices of the steps of a file
IndicesOf(lines) == { StepAt(lines, i).idx : i \in 1..NumSteps(lines) }

\* C11: a GetPrev or GetNext whose new offset is the stored index of no
\* step of the file (beyond the oldest step, before the newest, or the file
\* has no step) returns an empty step data and raises nothing.
C11_NavigateOutsideIsEmpty ==
    [][ (Navigating /\ currHistStep' \notin IndicesOf(File)) =>
           /\ ~raised'
           /\ ret' = EmptyDict
           /\ retSrc' = {}
      ]_vars

\* GetPrev stepped beyond the older of two steps that both have key lines
C11_Witness ==
    /\ lastOp = "GetPrev"
    /\ NumSteps(File) = 2
    /\ currHistStep = 2
    /\ \A i \in 1..2 : StepAt(File, i).payload # <<>>
    /\ ret = EmptyDict
    /\ ~raised

\* GetNext stepped before the newest step
C11_WitnessNext ==
    /\ lastOp = "GetNext"
    /\ currHistStep = 0 - 1
    /\ NumSteps(File) >= 1
    /\ StepAt(File, 1).payload # <<>>
    /\ ret = EmptyDict

\* GetPrev on a log without a committed step
C11_WitnessNoStep ==
    /\ lastOp = "GetPrev"
    /\ nCommits = 0
    /\ File = <<>>
    /\ ret = EmptyDict

\* C12: GetPrev and GetNext leave the backing file (its path, its lines and
\* so the steps and their order), histStepsNum, maxHistSteps and the
\* pending buffer as they were; they change the navigation offset and the
\* cached step data only.
C12_NavigateFrame ==
    [][ Navigating =>
           UNCHANGED <<fs, histFile, histStepsNum, maxHistSteps, newHistStepData>>
      ]_vars

\* GetPrev loaded a step with data while the pending buffer holds a slot
C12_Witness ==
    /\ lastOp = "GetPrev"
    /\ newHistStepData # EmptyDict
    /\ NumSteps(File) = 2
    /\ ret # EmptyDict
    /\ currHistStepData = ret

\* C13: in every reachable state GetStepsNum() is the number of steps the
\* backing file holds: 0 before the first commit, one more with each commit
\* until the limit is reached.
C13_StepsNumIsRetainedCount == GetStepsNum = NumSteps(File)

\* what holds of GetStepsNum(): it is the stored index of the oldest step of
\* the file, one less than the number of steps (0 while there is none)
C13_StepsNumIsOldestIndex == GetStepsNum = Max0(NumSteps(File) - 1)

\* C14: in every reachable state the stored indices of the steps of the
\* file, in file order, are 0, 1, ..., n-1, and they order the steps by
\* recency: the step with index 0 is the last one committed and each step
\* was committed before the step above it, with no retained step in between.
C14_IndicesOrderByRecency ==
    LET n == NumSteps(File)
    IN  /\ \A i \in 1..n :
              /\ StepAt(File, i).idx = i - 1
              /\ Cardinality(StepAt(File, i).c) = 1
        /\ n >= 1 => StepAt(File, 1).c = {nCommits}
        /\ \A i \in 1..(n - 1) :
              \A a \in StepAt(File, i).c : \A b \in StepAt(File, i + 1).c :
                 /\ b < a
                 /\ \A j \in 1..n : \A x \in StepAt(File, j).c : ~(b < x /\ x < a)

\* two steps are left of three commits, the older one renumbered twice
C14_Witness ==
    /\ nCommits = 3
    /\ NumSteps(File) = 2
    /\ StepAt(File, 2).c = {2}
    /\ StepAt(File, 2).idx = 1
    /\ DOMAIN ret # {}
    /\ lastOp = "SaveHistStep"

\* the step of a file whose lines carry the stamp c, if there is one
StepOfStamp(lines, c) == { StepAt(lines, i) : i \in { i \in 1..NumSteps(lines) : c \in StepAt(lines, i).c } }

\* C15: the content of a committed step never changes while the file holds
\* it: whatever operation runs, the key lines of a step that stays in the
\* file stay the same, and every GetPrev or GetNext that loads the step
\* returns one and the same step data, the one its key lines stood for when
\* the step was committed.  Only the stored index changes.
C15_CommittedStepImmutable ==
    [][ /\ (fs' # fs \/ histFile' # histFile) =>
              \A c \in StampsOf(File) \cap StampsOf(fs'[histFile']) :
                 \A old \in StepOfStamp(File, c) : \A new \in StepOfStamp(fs'[histFile'], c) :
                    /\ new.payload = old.payload
                    /\ new.payload = PendingLines(committed'[c])
        /\ Navigating =>
              \A c \in retSrc' :
                 ret' = ParseAll(PendingLines(committed'[c]), EmptyDict)
      ]_vars

\* the step of the first commit, with data, is loaded at index 1 after a
\* second commit and an Add
C15_Witness ==
    /\ lastOp = "GetPrev"
    /\ currHistStep = 1
    /\ retSrc = {1}
    /\ nCommits = 2
    /\ ret # EmptyDict
    /\ newHistStepData # EmptyDict

\* the step is a GetPrev or GetNext that read the step committed with data
\* d, or a SaveHistStep that returned that step as evicted, and got r
ReadBack(d, r) ==
    \/ /\ Navigating
       /\ \E c \in retSrc' : committed'[c] = d
       /\ r = ret'
    \/ /\ Committing
       /\ \E h \in DOMAIN ret' : r = ret'[h] /\ \E c \in retSrc'[h] : committed[c] = d

\* the step data that were committed and can be read back in this step
ReadableData == { committed[c] : c \in DOMAIN committed } \cup { committed'[c] : c \in DOMAIN committed' }

\* what a step can return as read back
ReadResults == {ret'} \cup (IF Committing THEN { ret'[h] : h \in DOMAIN ret' } ELSE {})

\* C16: round trip: a value of a supported type (integer, boolean, None,
\* string, 3-tuple of integers, flat list of such scalars) that was Added
\* and committed is equal to the original when it is read back by GetPrev or
\* GetNext or in the map of evicted steps.
C16_RoundTrip ==
    [][ \A d \in ReadableData : \A r \in ReadResults : ReadBack(d, r) => r = d ]_vars

\* the values a step data holds
ValuesOf(d) == { Lookup(d, sl) : sl \in SlotsOf(d) }

IsStrList(v) == v.t = "list" /\ \E k \in 1..Len(v.v) : v.v[k].t = "str"

IsIntTuple(v) == v.t = "tuple" /\ Len(v.v) = 3

IsIntList(v) == v.t = "list" /\ Len(v.v) > 0 /\ \A k \in 1..Len(v.v) : v.v[k].t = "int"

\* what holds of the sampled values: all of them but the list of strings
\* are read back equal
C16_RoundTripButStrLists ==
    [][ \A d \in ReadableData : \A r \in ReadResults :
           (ReadBack(d, r) /\ \A v \in ValuesOf(d) : ~IsStrList(v)) => r = d ]_vars

\* C17: a committed 3-tuple of integers is read back, by GetPrev or GetNext
\* or in the map of evicted steps, as the same 3-tuple of integers (it is a
\* tuple, not a string, and holds the same integers).
C17_ColorRoundTrip ==
    [][ \A d \in ReadableData : \A r \in ReadResults :
           (ReadBack(d, r) /\ \E v \in ValuesOf(d) : IsIntTuple(v)) =>
               /\ r = d
               /\ \A v \in ValuesOf(r) : IsIntTuple(v)
      ]_vars

\* GetNext came back to the newest step and read the colour (192, 0, 0)
C17_Witness ==
    /\ lastOp = "GetNext"
    /\ currHistStep = 0
    /\ ValuesOf(ret) = {TupleV(<<192, 0, 0>>)}

\* a commit returned an evicted step with a colour of a negative component
C17_WitnessEvicted ==
    /\ lastOp = "SaveHistStep"
    /\ \E h \in DOMAIN ret : ValuesOf(ret[h]) = {TupleV(<<0 - 1, 0, 255>>)}

C19_EmptyStringRoundTrip ==
    [][ \A d \in ReadableData : \A r \in ReadResults :
           (ReadBack(d, r) /\ StrV(<<>>) \in ValuesOf(d)) =>
               /\ SlotsOf(r) = SlotsOf(d)
               /\ \A sl \in SlotsOf(d) : Lookup(r, sl) = Lookup(d, sl)
      ]_vars

\* GetPrev read a group whose middle leaf holds the empty string between
\* two integers
C19_Witness ==
    /\ lastOp = "GetPrev"
    /\ DOMAIN ret = {points}
    /\ DOMAIN ret[points][pt0].v = {cat, topology, checked}
    /\ ret[points][pt0].v[topology] = StrV(<<>>)
    /\ ret[points][pt0].v[cat] = IntV(7)
    /\ ret[points][pt0].v[checked] = IntV(7)

\* a flat line whose first and last values are empty strings was read
C19_WitnessFlat ==
    /\ lastOp = "GetNext"
    /\ DOMAIN ret = {tmp_data}
    /\ DOMAIN ret[tmp_data] = {maps, cat, topology}
    /\ ret[tmp_data][maps] = StrV(<<>>)
    /\ ret[tmp_data][cat] = IntV(7)
    /\ ret[tmp_data][topology] = StrV(<<>>)

\* a commit returned an evicted step all of whose leaves are empty strings
C19_WitnessEvicted ==
    /\ lastOp = "SaveHistStep"
    /\ \E h \in DOMAIN ret :
          /\ Cardinality(SlotsOf(ret[h])) = 3
          /\ ValuesOf(ret[h]) = {StrV(<<>>)}

\* C20: the History owns exactly one backing file for as long as it lives:
\* the file of the constructor is empty, the temporary files that exist
\* are the current backing file and no other (each SaveHistStep replaces it
\* by a new file and removes the old one), and after __del__ none is left.
C20_OneBackingFile ==
    /\ Alive => DOMAIN fs = {histFile}
    /\ (Alive /\ nCommits = 0) => fs[histFile] = <<>>
    /\ ~Alive => DOMAIN fs = {}

\* every completed SaveHistStep makes a new file the backing file and
\* removes the file that was the backing file before
C20_CommitReplacesFile ==
    [][ Committing => (histFile' # histFile /\ histFile \notin DOMAIN fs') ]_vars

\* the object was torn down after three commits
C20_Witness ==
    /\ ~Alive
    /\ nCommits = 3
    /\ histFile = 4
    /\ fs = <<>>

\* C21: a committed flat list of strings is read back as a list of the
\* same length whose items are, at every position, the original strings
\* (the quotes str() put around them removed).
C21_StrListRoundTrip ==
    [][ \A d \in ReadableData : \A r \in ReadResults :
           (ReadBack(d, r) /\ \E v \in ValuesOf(d) : IsStrList(v)) =>
               /\ SlotsOf(r) = SlotsOf(d)
               /\ \A sl \in SlotsOf(d) :
                     /\ Lookup(r, sl).t = "list"
                     /\ Len(Lookup(r, sl).v) = Len(Lookup(d, sl).v)
                     /\ \A k \in 1..Len(Lookup(d, sl).v) :
                           Lookup(r, sl).v[k] = Lookup(d, sl).v[k]
      ]_vars

\* what holds of a list of strings read back: its length, its first item,
\* and of every later item the original string after a leading quote
C21_StrListShape ==
    [][ \A d \in ReadableData : \A r \in ReadResults :
           (ReadBack(d, r) /\ \E v \in ValuesOf(d) : IsStrList(v)) =>
               /\ SlotsOf(r) = SlotsOf(d)
               /\ \A sl \in SlotsOf(d) :
                     /\ Lookup(r, sl).t = "list"
                     /\ Len(Lookup(r, sl).v) = Len(Lookup(d, sl).v)
                     /\ Lookup(r, sl).v[1] = Lookup(d, sl).v[1]
                     /\ \A k \in 2..Len(Lookup(d, sl).v) :
                           Lookup(r, sl).v[k] = StrV(<<"'">> \o Lookup(d, sl).v[k].v)
      ]_vars

\* C22: whatever flat subkeys and groups a top-level key holds and in
\* whatever order keys() lists them, parsing the lines _saveNewHistStep
\* writes for the key rebuilds the key with the same flat subkeys and the
\* same groups, each group with exactly its own leaves.
C22_LinesKeepStructure ==
    [][ Called("_parseLine") =>
           /\ ~raised'
           /\ DOMAIN ret' = {args'.key}
           /\ ret'[args'.key] = newHistStepData[args'.key]
      ]_vars

\* a flat subkey written between two groups, one of them with two leaves
C22_Witness ==
    /\ lastOp = "_parseLine"
    /\ Len(args.subkeys) = 3
    /\ newHistStepData[points][args.subkeys[1]].t = "dict"
    /\ newHistStepData[points][args.subkeys[2]].t = "int"
    /\ newHistStepData[points][args.subkeys[3]].t = "dict"
    /\ \E n \in DOMAIN newHistStepData[points] :
          /\ newHistStepData[points][n].t = "dict"
          /\ DOMAIN newHistStepData[points][n].v = {cat, checked}
    /\ ret = newHistStepData

\* the field is n integers separated by ':'
IsIntParts(f, n) ==
    LET parts == Split(f, ":")
    IN  Len(parts) = n /\ \A k \in 1..n : IsInt(parts[k])

\* C23: decoding a stored field never fails, and: a field bracketed by [
\* and ] is a list; True, False, None are the booleans and None; a field
\* with ':' is a 3-tuple of integers when it reads as one and the unchanged
\* string otherwise; any other field is an integer if it reads as one, else
\* a float if it reads as one, else the unchanged string.
C23_DecodePriority ==
    [][ Called("_parseValue") =>
        LET f == args'.value
        IN  /\ ~raised'
            /\ IF Len(f) > 0 /\ f[1] = "[" /\ f[Len(f)] = "]" THEN ret'.t = "list"
               ELSE IF f = True_ THEN ret' = BoolV(TRUE)
               ELSE IF f = False_ THEN ret' = BoolV(FALSE)
               ELSE IF f = None_ THEN ret' = NoneV
               ELSE IF Contains(f, ":")
               THEN IF IsIntParts(f, 3)
                    THEN ret' = TupleV([k \in 1..3 |-> IntOf(Split(f, ":")[k])])
                    ELSE ret' = StrV(f)
               ELSE IF IsInt(f) THEN ret' = IntV(IntOf(f))
               ELSE IF IsFloat(f) THEN ret'.t = "float"
               ELSE ret' = StrV(f)
      ]_vars

\* what holds of the decoding: the same priority, but a field with ':' is
\* a tuple of integers whenever all its parts read as integers, however
\* many they are
C23_DecodePriorityAnyLength ==
    [][ Called("_parseValue") =>
        LET f == args'.value
        IN  /\ ~raised'
            /\ IF Len(f) > 0 /\ f[1] = "[" /\ f[Len(f)] = "]" THEN ret'.t = "list"
               ELSE IF f = True_ THEN ret' = BoolV(TRUE)
               ELSE IF f = False_ THEN ret' = BoolV(FALSE)
               ELSE IF f = None_ THEN ret' = NoneV
               ELSE IF Contains(f, ":")
               THEN IF \E n \in 2..(Len(f) + 1) : IsIntParts(f, n)
                    THEN ret'.t = "tuple" /\ Len(ret'.v) = Len(Split(f, ":"))
                    ELSE ret' = StrV(f)
               ELSE IF IsInt(f) THEN ret' = IntV(IntOf(f))
               ELSE IF IsFloat(f) THEN ret'.t = "float"
               ELSE ret' = StrV(f)
      ]_vars

\* a key line with a wrong number of fields: fewer than key, subkey, value
MalformedKeyLine(s) == Len(Split(RStrip(s, {"\n"}), ";")) < 3

HasMalformedLine(step) == \E k \in 1..Len(step.payload) : MalformedKeyLine(step.payload[k])

\* C24: an operation that reads a malformed key line of the backing file
\* fails with an error: a GetPrev or GetNext that loads a step with such a
\* line raises, and so does a SaveHistStep that evicts one, instead of
\* skipping the line or returning data without it.
C24_MalformedLineFails ==
    [][ /\ Navigating =>
              \A i \in 1..NumSteps(File) :
                 (StepAt(File, i).idx = currHistStep' /\ HasMalformedLine(StepAt(File, i)))
                    => raised'
        /\ Called("SaveHistStep") =>
              \A i \in 1..NumSteps(File) :
                 (StepAt(File, i).idx + 1 >= setting /\ HasMalformedLine(StepAt(File, i)))
                    => raised'
      ]_vars

\* what the code does with a key line of fewer than three fields: no
\* operation raises, and the line adds nothing to the data returned
C24_MalformedLineSkipped ==
    [][ /\ ~raised'
        /\ Navigating =>
              \A i \in 1..NumSteps(File) :
                 StepAt(File, i).idx = currHistStep' =>
                    LET well == SelectSeq(StepAt(File, i).payload,
                                          LAMBDA s : ~MalformedKeyLine(s))
                    IN  ret' = ParseAll(well, EmptyDict)
      ]_vars

\* the file new is the complete successor of the file old: the pending
\* buffer as step 0, then the old steps that stay below the limit
CompleteHist(new, old) ==
    LET kept == { i \in 1..NumSteps(old) : StepAt(old, i).idx + 1 < maxHistSteps }
    IN  /\ WellFormed(new)
        /\ NumSteps(new) = 1 + Cardinality(kept)
        /\ StepAt(new, 1).idx = 0
        /\ StepAt(new, 1).payload = PendingLines(newHistStepData)
        /\ \A i \in kept :
              /\ i + 1 <= NumSteps(new)
              /\ StepAt(new, i + 1).idx = StepAt(old, i).idx + 1
              /\ StepAt(new, i + 1).payload = StepAt(old, i).payload

\* C25: SaveHistStep writes the new step and then the retained old steps
\* into the new file, closes the files, removes the old backing file and
\* only then re-points histFile: the new file changes no more once it is
\* closed, the old file is removed only when the new file is complete and
\* closed, histFile is re-pointed only after the removal, and histFile
\* names a missing file only between the removal and the re-pointing.
C25_SaveHistStepOrder ==
    [][ /\ (lastOp = "SaveHistStep:2194" /\ fs' # fs) =>
              /\ histFile \in DOMAIN fs'
              /\ NumSteps(fs'[args.newHistFile]) = 1
              /\ StepAt(fs'[args.newHistFile], 1).payload = PendingLines(newHistStepData)
        /\ (histFile \in DOMAIN fs /\ histFile \notin DOMAIN fs') =>
              /\ lastOp = "SaveHistStep:2201"
              /\ CompleteHist(fs[args.newHistFile], fs[histFile])
              /\ fs'[args.newHistFile] = fs[args.newHistFile]
        /\ histFile' # histFile =>
              /\ histFile \notin DOMAIN fs
              /\ histFile' = args.newHistFile
              /\ fs' = fs
        /\ histFile \notin DOMAIN fs => lastOp = "SaveHistStep:2202"
        /\ lastOp \in {"SaveHistStep:2199", "SaveHistStep:2201", "SaveHistStep:2202",
                       "SaveHistStep:2204"} =>
              fs'[args.newHistFile] = fs[args.newHistFile]
      ]_vars

\* the old file of two steps has just been removed: histFile names a
\* missing file while the complete new file waits to be made current
C25_Witness ==
    /\ lastOp = "SaveHistStep:2202"
    /\ histFile \notin DOMAIN fs
    /\ nCommits = 2
    /\ NumSteps(fs[args.newHistFile]) = 2
    /\ DOMAIN args.removedHistData # {}

Range(s) == { s[k] : k \in 1..Len(s) }

\* the temporary maps recorded under tmp_data -> maps while a step was built
RecordedMaps(d) ==
    IF tmp_data \in DOMAIN d /\ maps \in DOMAIN d[tmp_data]
    THEN { d[tmp_data][maps].v[k].v : k \in 1..Len(d[tmp_data][maps].v) }
    ELSE {}

\* the maps recorded in the steps the backing file retains
RetainedMaps == UNION { RecordedMaps(committed[c]) : c \in DOMAIN committed }

\* the step is the part of VNETDialog._saveHistStep after the commit
CleaningUp == lastOp = "SaveHistStep" /\ lastOp' = "_saveHistStep"

\* C26: after VNETDialog._saveHistStep every temporary map recorded in an
\* evicted step (a registered map that no retained step records) has been
\* found in the registry, deleted and unregistered, with no exception, and
\* no map recorded in a retained step has been deleted.
C26_EvictedMapsDeleted ==
    [][ CleaningUp =>
          /\ ~raised'
          /\ \A m \in Range(tmpMaps) : m \notin RetainedMaps => m \notin Range(tmpMaps')
          /\ \A m \in RetainedMaps : m \in Range(tmpMaps')
      ]_vars

\* what the code does: the maps of the retained steps stay registered, and
\* of an evicted step the first recorded map is deleted; a second one is
\* not found (C21) and the lookup ends _saveHistStep with an exception
C26_RetainedMapsKept ==
    [][ CleaningUp =>
          /\ \A m \in RetainedMaps : m \in Range(tmpMaps')
          /\ raised' <=> \E h \in DOMAIN ret : Len(ret[h][tmp_data][maps].v) > 1
      ]_vars

\* the stamps of the steps a SaveHistStep reported in its returned map
ReportedStamps(src) == UNION { src[h] : h \in DOMAIN src }

\* C27: no committed step is lost silently.  A completed SaveHistStep
\* splits the steps of the old file and the new step into the steps the
\* new file retains and the steps its returned map reports, each reported
\* step under one entry of its own and none both retained and reported;
\* no other operation changes which steps the file retains.  A reported
\* step has left the file, so no later SaveHistStep reports it again.
C27_NoStepLostSilently ==
    [][ /\ Committing =>
              LET new == StampsOf(fs'[histFile'])
                  rep == ReportedStamps(retSrc')
              IN  /\ new \cup rep = StampsOf(File) \cup {nCommits'}
                  /\ new \cap rep = {}
                  /\ DOMAIN ret' = DOMAIN retSrc'
                  /\ \A h \in DOMAIN retSrc' : Cardinality(retSrc'[h]) = 1
                  /\ \A g, h \in DOMAIN retSrc' : g # h => retSrc'[g] \cap retSrc'[h] = {}
        /\ ~Committing => StampsOf(fs'[histFile']) = StampsOf(File)
      ]_vars

\* the third commit, made after the limit was lowered to 1, reported the
\* first and the second step and retained only itself
C27_Witness ==
    /\ lastOp = "SaveHistStep"
    /\ nCommits = 3
    /\ StampsOf(File) = {3}
    /\ ReportedStamps(retSrc) = {1, 2}

\* the data of the step of the file whose stored index is histStep, empty
\* when the file holds no such step
StepDataAt(lines, histStep) ==
    IF histStep \in IndicesOf(lines)
    THEN LET i == CHOOSE i \in 1..NumSteps(lines) : StepAt(lines, i).idx = histStep
         IN  ParseAll(StepAt(lines, i).payload, EmptyDict)
    ELSE EmptyDict

\* C28: the navigation offset is never clamped.  Every GetPrev adds one to
\* it and every GetNext takes one off, whatever the call returns and
\* however far the offset lies outside the retained steps; a GetNext right
\* after a GetPrev, and a GetPrev right after a GetNext, brings the offset
\* back to what it was before the pair and returns the step at that offset.
C28_OffsetNeverClamped ==
    [][ /\ Called("GetPrev") => GetCurrHistStep' = GetCurrHistStep + 1
        /\ Called("GetNext") => GetCurrHistStep' = GetCurrHistStep - 1
        /\ (  (lastOp = "GetPrev" /\ Called("GetNext"))
           \/ (lastOp = "GetNext" /\ Called("GetPrev")) ) =>
              /\ GetCurrHistStep' = prevHistStep
              /\ ret' = StepDataAt(File, prevHistStep)
      ]_vars

\* a GetPrev went beyond the oldest of two steps and returned nothing, and
\* the GetNext after it came back to the oldest step and returned its data
C28_Witness ==
    /\ lastOp = "GetNext"
    /\ prevHistStep = 2
    /\ GetCurrHistStep = 1
    /\ IndicesOf(File) = {0, 1}
    /\ DOMAIN ret # {}

\* two GetNext calls took the offset below zero, where no step is
C28_WitnessNegative ==
    /\ lastOp = "GetNext"
    /\ GetCurrHistStep = 0 - 2
    /\ ret = EmptyDict
    /\ NumSteps(File) > 0

\* C29: a commit made after undo does not truncate the redo branch.  When
\* SaveHistStep completes with the offset at j > 0, the old steps with
\* indices below j are carried over like every other step: the new file
\* holds, after the new step, exactly the old steps whose index + 1 is
\* below maxHistSteps, each with its index raised by one and its key lines
\* unchanged, and the returned map reports exactly the others; nothing of
\* this depends on j.
C29_CommitAfterUndoKeepsRedo ==
    [][ (Committing /\ currHistStep > 0) =>
        LET new  == fs'[histFile']
            kept == { i \in 1..NumSteps(File) : StepAt(File, i).idx + 1 < maxHistSteps' }
        IN  /\ maxHistSteps' = setting
            /\ NumSteps(new) = 1 + Cardinality(kept)
            /\ \A i \in 1..NumSteps(File) :
                  IF i \in kept
                  THEN /\ i + 1 <= NumSteps(new)
                       /\ StepAt(new, i + 1) = [StepAt(File, i) EXCEPT !.idx = @ + 1]
                  ELSE StepAt(File, i).c \subseteq ReportedStamps(retSrc')
            /\ \A i \in kept : StepAt(File, i).c \cap ReportedStamps(retSrc') = {}
      ]_vars

\* a commit made with the offset at 1 kept the step newer than the one
\* navigated to and evicted the one navigated to
C29_Witness ==
    /\ lastOp = "SaveHistStep"
    /\ ~raised
    /\ prevHistStep = 1
    /\ StampsOf(File) = {2, 3}
    /\ ReportedStamps(retSrc) = {1}

\* C30: after every completed operation histStepsNum is the stored index
\* of the oldest retained step, which is the number of retained steps less
\* one; it is 0 for an empty log as well as for a log of one step.
C30_HistStepsNumIsOldestIndex ==
    LET n == NumSteps(File)
    IN  /\ n = 0 => histStepsNum = 0
        /\ n = 1 => histStepsNum = 0
        /\ n > 0 =>
              /\ histStepsNum = n - 1
              /\ histStepsNum = StepAt(File, n).idx
              /\ \A i \in 1..n : StepAt(File, i).idx <= histStepsNum

\* a commit left two steps, the older one stored under index 1
C30_Witness ==
    /\ lastOp = "SaveHistStep"
    /\ NumSteps(File) = 2
    /\ StepAt(File, 2).idx = 1
    /\ histStepsNum = 1

\* a commit left a single step and the counter at 0
C30_WitnessOneStep ==
    /\ lastOp = "SaveHistStep"
    /\ NumSteps(File) = 1
    /\ histStepsNum = 0

\* a commit evicted two steps at once and the counter fell from 1 to 0
C30_WitnessShrunk ==
    /\ lastOp = "SaveHistStep"
    /\ Cardinality(DOMAIN ret) = 2
    /\ NumSteps(File) = 1
    /\ histStepsNum = 0

=============================================================================
